---- MODULE Spec2Model ----
(***************************************************************************)
(* Model of the directory-listing engine of File Browser:                  *)
(*   - FileModelWorker (src/unnamed/part_002, lines 27-308): the background *)
(*     thread that lists a directory in full mode or diff mode;            *)
(*   - SearchWorker (src/src/searchworker.cpp): the recursive search;      *)
(*   - FileModel (src/unnamed/part_002, lines 361-958): the list model of  *)
(*     one directory with its selection, filter and doomed flags.          *)
(* Indices carried by notifications are 0-based, as in the code; TLA+      *)
(* sequences are 1-based, so element i of a QList is s[i + 1].             *)
(***************************************************************************)
EXTENDS Integers, Sequences, FiniteSets, TLC

VARIABLES
    \* ---- FileModelWorker members
    m_mode, m_dir, m_hasSettings, m_oldEntries, m_finalEntries, m_cancelled,
    m_cachedDir,
    \* ---- the worker thread: QThread::isRunning(), position in run(), locals
    running, pc, fileList, newFiles, i, haveRemoved,
    \* ---- what the directory the thread looked at was like (exists, readable)
    dirStat,
    \* ---- notifications of the current task, as received by a consumer
    \* edits: the entryRemoved / entryAdded in emission order; terminal: the
    \* done / error in emission order; lastCall: the answer to the last start
    edits, terminal, lastCall,
    \* ---- history of the current task: accepted tasks so far, the listing
    \* passed to it, the listing it read, and when cancel() reached it
    tasks, argOld, lastRead, cancelReq, editsAtCancel, checkedAfterCancel

VARIABLES
    \* ---- SearchWorker members
    s_directory, s_searchTerm, s_currentDirectory, s_cancelled,
    \* ---- the search thread: isRunning(), position in run(), the frames of
    \* searchRecursively (innermost last), the value the last call returned
    s_running, s_pc, s_stack, s_errMsg,
    \* ---- notifications of the current search in emission order, and the
    \* arguments and answer of the last startSearch
    s_events, s_lastStart,
    \* ---- history: accepted searches so far, and when cancel() reached the
    \* current one
    searches, s_cancelReq, s_eventsAtCancel

VARIABLES
    \* ---- the FileModel object: a record of its members (m_files, m_dir, ...),
    \* the paths its QFileSystemWatcher watches, and, for the last call of one
    \* of its methods: the name of the method, the signals it emitted in
    \* emission order and the directory reads it made
    fileModel

searchVars == <<s_directory, s_searchTerm, s_currentDirectory, s_cancelled,
                s_running, s_pc, s_stack, s_errMsg, s_events, s_lastStart,
                searches, s_cancelReq, s_eventsAtCancel>>

workerVars == <<m_mode, m_dir, m_hasSettings, m_oldEntries, m_finalEntries,
                m_cancelled, m_cachedDir, running, pc, fileList, newFiles, i,
                haveRemoved, dirStat, edits, terminal, lastCall, tasks, argOld,
                lastRead, cancelReq, editsAtCancel, checkedAfterCancel>>

VARIABLES
    \* ---- the settings a worker or a model is given (Settings* m_settings):
    \* the global values and the values of the directory's .directory file,
    \* each key absent or holding a string; the filter and sorting flags that
    \* the last applySettings() gave the QDir and which object made the call;
    \* the number of writes so far
    m_settings, dirFlags, writes

VARIABLES
    \* ---- the Bookmarks group of the settings (bookmarks JS, part_003): the
    \* text stored under Bookmarks/Entries, the paths that have a key
    \* Bookmarks/<path> holding their name, and the last call made
    bookmarkSettings

policyVars == <<m_settings, dirFlags, writes, bookmarkSettings>>

vars == <<workerVars, searchVars, fileModel, policyVars>>

-----------------------------------------------------------------------------
(* Bounds *)

\* longest listing considered
MaxLen == 3
\* number of accepted tasks per behaviour
MaxTasks == 2
\* number of accepted searches per behaviour
MaxSearches == 2
\* largest distance of the published selected count from zero followed
MaxCount == 2
\* longest filter string followed
MaxFilterLen == 7
\* the most writes to the settings
MaxWrites == 3
\* deepest nesting of searchRecursively followed
MaxDepth == 4

-----------------------------------------------------------------------------
(* Entry snapshots (StatFileInfo) *)

\* A snapshot as the StatFileInfo constructor leaves it after stat(): the
\* identity attributes read from the file system, the view flags cleared.
StatFileInfo(n, s, p, t, l, d) ==
    [fileName |-> n, size |-> s, permissions |-> p, lastModified |-> t,
     isSymLink |-> l, isDirAtEnd |-> d,
     isSelected |-> FALSE, isMatched |-> FALSE, isDoomed |-> FALSE]

\* /d/a.txt, and a.txt after it was rewritten (size and modification time)
a0 == StatFileInfo("a.txt", 10, "rw-", 1, FALSE, FALSE)
a1 == StatFileInfo("a.txt", 11, "rw-", 2, FALSE, FALSE)
\* /d/b.txt, and b.txt after a chmod
b0 == StatFileInfo("b.txt", 20, "rw-", 1, FALSE, FALSE)
b1 == StatFileInfo("b.txt", 20, "r--", 1, FALSE, FALSE)
\* /d/c.txt, and c.txt replaced by a symbolic link to a directory
c0 == StatFileInfo("c.txt", 15, "rw-", 1, FALSE, FALSE)
c2 == StatFileInfo("c.txt", 15, "rw-", 1, TRUE, TRUE)
\* b0 as a model holds it after the user selected it
b0s == [b0 EXCEPT !.isSelected = TRUE]

\* what a fresh read can return for one name
FreshEntries == {a0, a1, b0, b1, c0, c2}
\* what a caller can hold for one name
HeldEntries == FreshEntries \cup {b0s}

NameUnique(s) ==
    \A j, k \in 1..Len(s) : j # k => s[j].fileName # s[k].fileName

\* the name-unique listings over a set of entries, up to MaxLen long
Listings(U) ==
    {s \in UNION {[1..n -> U] : n \in 0..MaxLen} : NameUnique(s)}

NewListings == Listings(FreshEntries)
OldListings == Listings(HeldEntries)

\* the identity attributes of an entry
IdOf(e) == <<e.fileName, e.size, e.permissions, e.lastModified,
             e.isSymLink, e.isDirAtEnd>>
IdSeq(s) == [k \in 1..Len(s) |-> IdOf(s[k])]
IdSet(s) == {IdOf(s[k]) : k \in 1..Len(s)}

-----------------------------------------------------------------------------
(* QList operations, 0-based *)

\* QList::removeAt(i)
RemoveAt(s, n) ==
    IF n < 0 \/ n >= Len(s) THEN s
    ELSE [k \in 1..(Len(s) - 1) |-> IF k <= n THEN s[k] ELSE s[k + 1]]

\* QList::insert(i, value): i <= 0 prepends, i >= size() appends (Qt 5)
InsertAt(s, n, e) ==
    LET p == IF n <= 0 THEN 0 ELSE IF n >= Len(s) THEN Len(s) ELSE n
    IN  [k \in 1..(Len(s) + 1) |->
            IF k <= p THEN s[k] ELSE IF k = p + 1 THEN e ELSE s[k - 1]]

-----------------------------------------------------------------------------
(* FileModelWorker: pure helpers *)

\* FileModelWorker::filesContains compared on the name only
filesContainsByName(files, fileData) ==
    \E k \in 1..Len(files) : files[k].fileName = fileData.fileName

\* FileModelWorker::filesContains compared on every field of the snapshot
filesContainsWithFlags(files, fileData) ==
    \E k \in 1..Len(files) : files[k] = fileData

filesContains(files, fileData) ==
    \E k \in 1..Len(files) :
        /\ files[k].fileName = fileData.fileName
        /\ files[k].size = fileData.size
        /\ files[k].permissions = fileData.permissions
        /\ files[k].lastModified = fileData.lastModified
        /\ files[k].isSymLink = fileData.isSymLink
        /\ files[k].isDirAtEnd = fileData.isDirAtEnd

\* a cancellation check that never reports the flag
cancelIfCancelledNever == FALSE

cancelIfCancelled == m_cancelled = "Cancelled"

\* the directory states QDir can report: <<exists, isReadable>>
DirStates == {<<FALSE, FALSE>>, <<TRUE, FALSE>>, <<TRUE, TRUE>>}

ErrEmptyDir == "Internal worker error: empty directory name"
ErrNoFolder == "Folder does not exist"
ErrNoPermission == "No permission to read the folder"

\* verifyOrAbort with the readability test before the existence test
verifyOrAbortSwapped(dir, st) ==
    IF dir = "" THEN ErrEmptyDir
    ELSE IF ~st[2] THEN ErrNoPermission
    ELSE IF ~st[1] THEN ErrNoFolder
    ELSE ""

\* the message verifyOrAbort emits, "" when it returns true
verifyOrAbort(dir, st) ==
    IF dir = "" THEN ErrEmptyDir
    ELSE IF ~st[1] THEN ErrNoFolder
    ELSE IF ~st[2] THEN ErrNoPermission
    ELSE ""

-----------------------------------------------------------------------------
(* FileModelWorker: state after construction *)

Modes == {"FullMode", "DiffMode"}
Dirs == {"", "/d"}

InitWorker ==
    /\ m_mode = "NoneMode"
    /\ m_dir = ""
    /\ m_hasSettings = FALSE
    /\ m_oldEntries = <<>>
    /\ m_finalEntries = <<>>
    /\ m_cancelled = "KeepRunning"
    /\ m_cachedDir = ""
    /\ running = FALSE
    /\ pc = "idle"
    /\ fileList = <<>>
    /\ newFiles = <<>>
    /\ i = 0
    /\ haveRemoved = FALSE
    /\ dirStat = <<FALSE, FALSE>>
    /\ edits = <<>>
    /\ terminal = <<>>
    /\ lastCall = "none"
    /\ tasks = 0
    /\ argOld = <<>>
    /\ lastRead = <<>>
    /\ cancelReq = FALSE
    /\ editsAtCancel = 0
    /\ checkedAfterCancel = FALSE

\* variables only the caller's side writes
callerVars == <<m_mode, m_dir, m_hasSettings, m_cancelled, lastCall, tasks,
                argOld, cancelReq, editsAtCancel>>
\* notifications of the task
outVars == <<edits, terminal>>

-----------------------------------------------------------------------------
(* FileModelWorker: the caller's side *)

\* the assignments of doStartThread without the reset of m_cancelled
AcceptStartKeepsFlag(mode, oldEntries, dir, settings) ==
    /\ tasks < MaxTasks
    /\ m_hasSettings' = settings
    /\ m_mode' = mode
    /\ m_finalEntries' = <<>>
    /\ m_oldEntries' = oldEntries
    /\ m_dir' = dir
    /\ running' = TRUE
    /\ pc' = IF running THEN pc ELSE "verify"
    /\ lastCall' = "accepted"
    /\ tasks' = tasks + 1
    /\ argOld' = oldEntries
    /\ cancelReq' = FALSE
    /\ editsAtCancel' = 0
    /\ checkedAfterCancel' = FALSE
    /\ dirStat' = <<FALSE, FALSE>>
    /\ edits' = <<>>
    /\ terminal' = <<>>
    /\ lastRead' = <<>>
    /\ UNCHANGED <<m_cancelled, m_cachedDir, fileList, newFiles, i, haveRemoved>>
    /\ UNCHANGED <<searchVars, fileModel, policyVars>>

\* the assignments of doStartThread once the call is accepted, and start()
AcceptStart(mode, oldEntries, dir, settings) ==
    /\ tasks < MaxTasks
    /\ m_hasSettings' = settings
    /\ m_mode' = mode
    /\ m_finalEntries' = <<>>
    /\ m_oldEntries' = oldEntries
    /\ m_dir' = dir
    /\ m_cancelled' = "KeepRunning"
    /\ running' = TRUE
    /\ pc' = IF running THEN pc ELSE "verify"
    /\ lastCall' = "accepted"
    /\ tasks' = tasks + 1
    /\ argOld' = oldEntries
    /\ cancelReq' = FALSE
    /\ editsAtCancel' = 0
    /\ checkedAfterCancel' = FALSE
    /\ dirStat' = <<FALSE, FALSE>>
    /\ edits' = <<>>
    /\ terminal' = <<>>
    /\ lastRead' = <<>>
    /\ UNCHANGED <<m_cachedDir, fileList, newFiles, i, haveRemoved>>
    /\ UNCHANGED <<searchVars, fileModel, policyVars>>

\* doStartThread without the isRunning() test
doStartThreadNoCheck(mode, oldEntries, dir, settings) ==
    AcceptStart(mode, oldEntries, dir, settings)

doStartThread(mode, oldEntries, dir, settings) ==
    IF running
    THEN /\ lastCall' = "alreadyRunning"
         /\ UNCHANGED <<m_mode, m_dir, m_hasSettings, m_oldEntries,
                        m_finalEntries, m_cancelled, m_cachedDir, running, pc,
                        fileList, newFiles, i, haveRemoved, dirStat, edits,
                        terminal, tasks, argOld, lastRead, cancelReq,
                        editsAtCancel, checkedAfterCancel>>
         /\ UNCHANGED <<searchVars, fileModel, policyVars>>
    ELSE AcceptStart(mode, oldEntries, dir, settings)

\* a few listings a caller may hold
SampleOld == {<<>>, <<a0, b0>>, <<b0s, c2>>}

\* startReadFull(dir, nameFilter, settings)
startReadFull ==
    \E dir \in Dirs, settings \in BOOLEAN :
        doStartThread("FullMode", <<>>, dir, settings)

\* startReadChanged(oldEntries, dir, nameFilter, settings), oldEntries in olds
startReadChanged(olds) ==
    \E oldEntries \in olds, dir \in Dirs, settings \in BOOLEAN :
        doStartThread("DiffMode", oldEntries, dir, settings)

cancel ==
    /\ m_cancelled' = "Cancelled"
    /\ cancelReq' = (cancelReq \/ running)
    /\ editsAtCancel' = IF running /\ ~cancelReq THEN Len(edits) ELSE editsAtCancel
    /\ UNCHANGED <<m_mode, m_dir, m_hasSettings, m_oldEntries, m_finalEntries,
                   m_cachedDir, running, pc, fileList, newFiles, i, haveRemoved,
                   dirStat, edits, terminal, lastCall, tasks, argOld, lastRead,
                   checkedAfterCancel>>
    /\ UNCHANGED <<searchVars, fileModel, policyVars>>

-----------------------------------------------------------------------------
(* FileModelWorker: the thread *)

\* run() returns: the thread ends, its locals go out of scope
Return ==
    /\ running' = FALSE
    /\ pc' = "idle"
    /\ fileList' = <<>>
    /\ newFiles' = <<>>
    /\ i' = 0
    /\ haveRemoved' = FALSE

\* a call of cancelIfCancelled() is part of the step
Checked == checkedAfterCancel' = (checkedAfterCancel \/ cancelReq)

\* run(): verifyOrAbort, the cached directory, the dispatch on the mode
Run ==
    /\ pc = "verify"
    /\ \E st \in (IF m_dir = "" THEN {dirStat} ELSE DirStates) :
        /\ dirStat' = st
        /\ IF verifyOrAbort(m_dir, st) # ""
           THEN /\ terminal' = Append(terminal, [sig |-> "error",
                                                   message |-> verifyOrAbort(m_dir, st)])
                /\ Return
                /\ UNCHANGED m_cachedDir
           ELSE /\ m_cachedDir' = IF m_cachedDir # m_dir THEN m_dir ELSE m_cachedDir
                /\ IF m_mode = "NoneMode"
                   THEN Return
                   ELSE /\ pc' = "applySettings1"
                        /\ UNCHANGED <<running, fileList, newFiles, i, haveRemoved>>
                /\ UNCHANGED terminal
    /\ UNCHANGED <<m_oldEntries, m_finalEntries, edits, lastRead,
                   checkedAfterCancel>>
    /\ UNCHANGED <<callerVars, searchVars, fileModel, policyVars>>

\* applySettings(), up to its first cancellation check; without settings the
\* cached directory is refreshed and the function returns true
ApplySettings1 ==
    /\ pc = "applySettings1"
    /\ Checked
    /\ IF cancelIfCancelled
       THEN Return
       ELSE /\ pc' = IF m_hasSettings THEN "applySettings2" ELSE "entryList"
            /\ UNCHANGED <<running, fileList, newFiles, i, haveRemoved>>
    /\ UNCHANGED <<m_oldEntries, m_finalEntries, m_cachedDir, dirStat>>
    /\ UNCHANGED <<outVars, lastRead>>
    /\ UNCHANGED <<callerVars, searchVars, fileModel, policyVars>>

\* applySettings(): the filters, then the second check
ApplySettings2 ==
    /\ pc = "applySettings2"
    /\ Checked
    /\ IF cancelIfCancelled
       THEN Return
       ELSE /\ pc' = "applySettings3"
            /\ UNCHANGED <<running, fileList, newFiles, i, haveRemoved>>
    /\ UNCHANGED <<m_oldEntries, m_finalEntries, m_cachedDir, dirStat>>
    /\ UNCHANGED <<outVars, lastRead>>
    /\ UNCHANGED <<callerVars, searchVars, fileModel, policyVars>>

\* applySettings(): the sorting, then the third check
ApplySettings3 ==
    /\ pc = "applySettings3"
    /\ Checked
    /\ IF cancelIfCancelled
       THEN Return
       ELSE /\ pc' = "entryList"
            /\ UNCHANGED <<running, fileList, newFiles, i, haveRemoved>>
    /\ UNCHANGED <<m_oldEntries, m_finalEntries, m_cachedDir, dirStat>>
    /\ UNCHANGED <<outVars, lastRead>>
    /\ UNCHANGED <<callerVars, searchVars, fileModel, policyVars>>

\* m_cachedDir.entryList(): what the directory holds now, in the order the
\* directory's sorting gives
EntryList ==
    /\ pc = "entryList"
    /\ \E fl \in NewListings : fileList' = fl /\ lastRead' = fl
    /\ i' = 0
    /\ pc' = "read"
    /\ UNCHANGED <<m_oldEntries, m_finalEntries, m_cachedDir, running, newFiles,
                   haveRemoved, dirStat, checkedAfterCancel>>
    /\ UNCHANGED outVars
    /\ UNCHANGED <<callerVars, searchVars, fileModel, policyVars>>

\* one iteration of the loop over fileList (doReadFull, doReadDiff), or the
\* end of the loop
ReadEntry ==
    /\ pc = "read"
    /\ IF i < Len(fileList)
       THEN /\ Checked
            /\ m_finalEntries' = IF m_mode = "FullMode"
                                 THEN Append(m_finalEntries, fileList[i + 1])
                                 ELSE m_finalEntries
            /\ IF cancelIfCancelled
               THEN Return
               ELSE /\ newFiles' = IF m_mode = "DiffMode"
                                   THEN Append(newFiles, fileList[i + 1])
                                   ELSE newFiles
                    /\ i' = i + 1
                    /\ UNCHANGED <<running, pc, fileList, haveRemoved>>
       ELSE /\ IF m_mode = "FullMode"
               THEN /\ pc' = "emitDone"
                    /\ UNCHANGED <<m_finalEntries, i, haveRemoved>>
               ELSE /\ m_finalEntries' = m_oldEntries
                    /\ haveRemoved' = FALSE
                    /\ i' = Len(m_oldEntries) - 1
                    /\ pc' = "remove"
            /\ UNCHANGED <<running, fileList, newFiles, checkedAfterCancel>>
    /\ UNCHANGED <<m_oldEntries, m_cachedDir, dirStat>>
    /\ UNCHANGED <<outVars, lastRead>>
    /\ UNCHANGED <<callerVars, searchVars, fileModel, policyVars>>

\* the removal pass emitting entryRemoved for an entry it keeps in its list
RemoveEntryKeepsRow ==
    /\ pc = "remove"
    /\ IF i >= 0
       THEN IF ~filesContains(newFiles, m_oldEntries[i + 1])
            THEN /\ edits' = Append(edits, [kind |-> "entryRemoved", index |-> i,
                                            entry |-> m_oldEntries[i + 1]])
                 /\ haveRemoved' = TRUE
                 /\ pc' = "removeCheck"
                 /\ UNCHANGED <<m_oldEntries, m_finalEntries, i>>
            ELSE /\ i' = i - 1
                 /\ UNCHANGED <<m_oldEntries, m_finalEntries, haveRemoved, pc, edits>>
       ELSE /\ m_oldEntries' = IF haveRemoved THEN m_finalEntries ELSE m_oldEntries
            /\ i' = 0
            /\ pc' = "insert"
            /\ UNCHANGED <<m_finalEntries, haveRemoved, edits>>
    /\ UNCHANGED <<m_cachedDir, running, fileList, newFiles, dirStat,
                   terminal, lastRead, checkedAfterCancel>>
    /\ UNCHANGED <<callerVars, searchVars, fileModel, policyVars>>

\* the removal pass emitting the index above the one it removes
RemoveEntryOffByOne ==
    /\ pc = "remove"
    /\ IF i >= 0
       THEN IF ~filesContains(newFiles, m_oldEntries[i + 1])
            THEN /\ edits' = Append(edits, [kind |-> "entryRemoved", index |-> i + 1,
                                            entry |-> m_oldEntries[i + 1]])
                 /\ m_finalEntries' = RemoveAt(m_finalEntries, i)
                 /\ haveRemoved' = TRUE
                 /\ pc' = "removeCheck"
                 /\ UNCHANGED <<m_oldEntries, i>>
            ELSE /\ i' = i - 1
                 /\ UNCHANGED <<m_oldEntries, m_finalEntries, haveRemoved, pc, edits>>
       ELSE /\ m_oldEntries' = IF haveRemoved THEN m_finalEntries ELSE m_oldEntries
            /\ i' = 0
            /\ pc' = "insert"
            /\ UNCHANGED <<m_finalEntries, haveRemoved, edits>>
    /\ UNCHANGED <<m_cachedDir, running, fileList, newFiles, dirStat,
                   terminal, lastRead, checkedAfterCancel>>
    /\ UNCHANGED <<callerVars, searchVars, fileModel, policyVars>>

\* one iteration of the removal pass of doReadDiff up to its emit, or the end
\* of the pass and the choice of the baseline
RemoveEntry ==
    /\ pc = "remove"
    /\ IF i >= 0
       THEN IF ~filesContains(newFiles, m_oldEntries[i + 1])
            THEN /\ edits' = Append(edits, [kind |-> "entryRemoved", index |-> i,
                                            entry |-> m_oldEntries[i + 1]])
                 /\ m_finalEntries' = RemoveAt(m_finalEntries, i)
                 /\ haveRemoved' = TRUE
                 /\ pc' = "removeCheck"
                 /\ UNCHANGED <<m_oldEntries, i>>
            ELSE /\ i' = i - 1
                 /\ UNCHANGED <<m_oldEntries, m_finalEntries, haveRemoved, pc, edits>>
       ELSE /\ m_oldEntries' = IF haveRemoved THEN m_finalEntries ELSE m_oldEntries
            /\ i' = 0
            /\ pc' = "insert"
            /\ UNCHANGED <<m_finalEntries, haveRemoved, edits>>
    /\ UNCHANGED <<m_cachedDir, running, fileList, newFiles, dirStat,
                   terminal, lastRead, checkedAfterCancel>>
    /\ UNCHANGED <<callerVars, searchVars, fileModel, policyVars>>

\* the removal pass going on to the next entry without the check
RemoveCheckSkipped ==
    /\ pc = "removeCheck"
    /\ i' = i - 1
    /\ pc' = "remove"
    /\ UNCHANGED <<running, fileList, newFiles, haveRemoved, checkedAfterCancel>>
    /\ UNCHANGED <<m_oldEntries, m_finalEntries, m_cachedDir, dirStat>>
    /\ UNCHANGED <<outVars, lastRead>>
    /\ UNCHANGED <<callerVars, searchVars, fileModel, policyVars>>

\* the cancellation check that follows an emitted removal
RemoveCheck ==
    /\ pc = "removeCheck"
    /\ Checked
    /\ IF cancelIfCancelled
       THEN Return
       ELSE /\ i' = i - 1
            /\ pc' = "remove"
            /\ UNCHANGED <<running, fileList, newFiles, haveRemoved>>
    /\ UNCHANGED <<m_oldEntries, m_finalEntries, m_cachedDir, dirStat>>
    /\ UNCHANGED <<outVars, lastRead>>
    /\ UNCHANGED <<callerVars, searchVars, fileModel, policyVars>>

\* the insertion pass appending the new entry instead of inserting it at i
InsertEntryAppend ==
    /\ pc = "insert"
    /\ IF i < Len(newFiles)
       THEN IF ~filesContains(m_oldEntries, newFiles[i + 1])
            THEN /\ edits' = Append(edits, [kind |-> "entryAdded", index |-> i,
                                            entry |-> newFiles[i + 1]])
                 /\ m_finalEntries' = Append(m_finalEntries, newFiles[i + 1])
                 /\ pc' = "insertCheck"
                 /\ UNCHANGED i
            ELSE /\ i' = i + 1
                 /\ UNCHANGED <<m_finalEntries, pc, edits>>
       ELSE /\ pc' = "finalCheck"
            /\ UNCHANGED <<m_finalEntries, i, edits>>
    /\ UNCHANGED <<m_oldEntries, m_cachedDir, running, fileList, newFiles,
                   haveRemoved, dirStat, terminal, lastRead, checkedAfterCancel>>
    /\ UNCHANGED <<callerVars, searchVars, fileModel, policyVars>>

\* the insertion pass emitting the index after the one it inserts at
InsertEntryShifted ==
    /\ pc = "insert"
    /\ IF i < Len(newFiles)
       THEN IF ~filesContains(m_oldEntries, newFiles[i + 1])
            THEN /\ edits' = Append(edits, [kind |-> "entryAdded", index |-> i + 1,
                                            entry |-> newFiles[i + 1]])
                 /\ m_finalEntries' = InsertAt(m_finalEntries, i, newFiles[i + 1])
                 /\ pc' = "insertCheck"
                 /\ UNCHANGED i
            ELSE /\ i' = i + 1
                 /\ UNCHANGED <<m_finalEntries, pc, edits>>
       ELSE /\ pc' = "finalCheck"
            /\ UNCHANGED <<m_finalEntries, i, edits>>
    /\ UNCHANGED <<m_oldEntries, m_cachedDir, running, fileList, newFiles,
                   haveRemoved, dirStat, terminal, lastRead, checkedAfterCancel>>
    /\ UNCHANGED <<callerVars, searchVars, fileModel, policyVars>>

\* one iteration of the insertion pass of doReadDiff up to its emit, or the
\* end of the pass
InsertEntry ==
    /\ pc = "insert"
    /\ IF i < Len(newFiles)
       THEN IF ~filesContains(m_oldEntries, newFiles[i + 1])
            THEN /\ edits' = Append(edits, [kind |-> "entryAdded", index |-> i,
                                            entry |-> newFiles[i + 1]])
                 /\ m_finalEntries' = InsertAt(m_finalEntries, i, newFiles[i + 1])
                 /\ pc' = "insertCheck"
                 /\ UNCHANGED i
            ELSE /\ i' = i + 1
                 /\ UNCHANGED <<m_finalEntries, pc, edits>>
       ELSE /\ pc' = "finalCheck"
            /\ UNCHANGED <<m_finalEntries, i, edits>>
    /\ UNCHANGED <<m_oldEntries, m_cachedDir, running, fileList, newFiles,
                   haveRemoved, dirStat, terminal, lastRead, checkedAfterCancel>>
    /\ UNCHANGED <<callerVars, searchVars, fileModel, policyVars>>

\* the insertion pass going on to the next entry without the check
InsertCheckSkipped ==
    /\ pc = "insertCheck"
    /\ i' = i + 1
    /\ pc' = "insert"
    /\ UNCHANGED <<running, fileList, newFiles, haveRemoved, checkedAfterCancel>>
    /\ UNCHANGED <<m_oldEntries, m_finalEntries, m_cachedDir, dirStat>>
    /\ UNCHANGED <<outVars, lastRead>>
    /\ UNCHANGED <<callerVars, searchVars, fileModel, policyVars>>

\* the cancellation check that follows an emitted insertion
InsertCheck ==
    /\ pc = "insertCheck"
    /\ Checked
    /\ IF cancelIfCancelled
       THEN Return
       ELSE /\ i' = i + 1
            /\ pc' = "insert"
            /\ UNCHANGED <<running, fileList, newFiles, haveRemoved>>
    /\ UNCHANGED <<m_oldEntries, m_finalEntries, m_cachedDir, dirStat>>
    /\ UNCHANGED <<outVars, lastRead>>
    /\ UNCHANGED <<callerVars, searchVars, fileModel, policyVars>>

\* the cancellation check before done in doReadDiff
FinalCheck ==
    /\ pc = "finalCheck"
    /\ Checked
    /\ IF cancelIfCancelled
       THEN Return
       ELSE /\ pc' = "emitDone"
            /\ UNCHANGED <<running, fileList, newFiles, i, haveRemoved>>
    /\ UNCHANGED <<m_oldEntries, m_finalEntries, m_cachedDir, dirStat>>
    /\ UNCHANGED <<outVars, lastRead>>
    /\ UNCHANGED <<callerVars, searchVars, fileModel, policyVars>>

\* done emitted twice
EmitDoneTwice ==
    /\ pc = "emitDone"
    /\ terminal' = terminal \o <<[sig |-> "done", mode |-> m_mode,
                                   entries |-> m_finalEntries],
                                  [sig |-> "done", mode |-> m_mode,
                                   entries |-> m_finalEntries]>>
    /\ Return
    /\ UNCHANGED <<m_oldEntries, m_finalEntries, m_cachedDir, dirStat, edits,
                   lastRead, checkedAfterCancel>>
    /\ UNCHANGED <<callerVars, searchVars, fileModel, policyVars>>

\* emit done(m_mode, m_finalEntries), and the thread ends
EmitDone ==
    /\ pc = "emitDone"
    /\ terminal' = Append(terminal, [sig |-> "done", mode |-> m_mode,
                                      entries |-> m_finalEntries])
    /\ Return
    /\ UNCHANGED <<m_oldEntries, m_finalEntries, m_cachedDir, dirStat, edits,
                   lastRead, checkedAfterCancel>>
    /\ UNCHANGED <<callerVars, searchVars, fileModel, policyVars>>

\* the steps of the thread
Thread ==
    \/ Run
    \/ ApplySettings1
    \/ ApplySettings2
    \/ ApplySettings3
    \/ EntryList
    \/ ReadEntry
    \/ RemoveEntry
    \/ RemoveCheck
    \/ InsertEntry
    \/ InsertCheck
    \/ FinalCheck
    \/ EmitDone

-----------------------------------------------------------------------------
(* Strings: a QString is a sequence of characters *)

\* QChar::toLower on the letters used here
LowerChar(c) == IF c = "A" THEN "a" ELSE IF c = "B" THEN "b" ELSE c
\* QString::toLower
toLower(str) == [k \in 1..Len(str) |-> LowerChar(str[k])]
\* QString::startsWith
startsWith(str, prefix) ==
    Len(prefix) <= Len(str) /\ SubSeq(str, 1, Len(prefix)) = prefix
\* QString::indexOf(term) >= 0
indexOfFound(str, term) ==
    \E k \in 0..(Len(str) - Len(term)) : SubSeq(str, k + 1, k + Len(term)) = term

Slash == <<"/">>
ProcPrefix == <<"/", "p", "r", "o", "c">>
SysBlockPrefix == <<"/", "s", "y", "s", "/", "b", "l", "o", "c", "k">>

\* QDir::absoluteFilePath(filename) of the directory with absolute path dir
absoluteFilePath(dir, filename) ==
    IF dir # <<>> /\ dir[Len(dir)] = "/" THEN dir \o filename
    ELSE dir \o Slash \o filename

\* the components of an absolute path: "/r/sb" gives <<"r", "sb">>
Components(path) ==
    IF path = <<>> \/ path = Slash THEN <<>>
    ELSE LET slashes == {k \in 1..Len(path) : path[k] = "/"}
             start(j) == CHOOSE k \in slashes :
                             Cardinality({m \in slashes : m < k}) = j - 1
             n == Cardinality(slashes)
         IN  [j \in 1..n |->
                 SubSeq(path, start(j) + 1,
                        IF j = n THEN Len(path) ELSE start(j + 1) - 1)]

-----------------------------------------------------------------------------
(* The directory tree the search runs on:                                   *)
(*   /           subdirectories proc, procdata, r, sys                      *)
(*   /proc       files b                                                    *)
(*   /procdata   files b                                                    *)
(*   /r          files Ab, c    subdirectories ln, sb, zz                   *)
(*   /r/ln       symbolic link to /r (its parent)                           *)
(*   /r/sb       files ab       subdirectories B, up                        *)
(*   /r/sb/B     files b                                                    *)
(*   /r/sb/up    symbolic link to /r (an ancestor)                          *)
(*   /r/zz       listed by its parent, gone when it is looked at            *)
(*   /sys        subdirectories block, blockdev                             *)
(*   /sys/block, /sys/blockdev   files b                                    *)

N_r == <<"r">>
N_ln == <<"l", "n">>
N_sb == <<"s", "b">>
N_zz == <<"z", "z">>
N_B == <<"B">>
N_up == <<"u", "p">>
N_Ab == <<"A", "b">>
N_c == <<"c">>
N_ab == <<"a", "b">>
N_b == <<"b">>
N_proc == <<"p", "r", "o", "c">>
N_procdata == <<"p", "r", "o", "c", "d", "a", "t", "a">>
N_sys == <<"s", "y", "s">>
N_block == <<"b", "l", "o", "c", "k">>
N_blockdev == <<"b", "l", "o", "c", "k", "d", "e", "v">>

Fs ==
    (<<>> :> [kind |-> "dir", files |-> <<>>,
              dirs |-> <<N_proc, N_procdata, N_r, N_sys>>]) @@
    (<<N_proc>> :> [kind |-> "dir", files |-> <<N_b>>, dirs |-> <<>>]) @@
    (<<N_procdata>> :> [kind |-> "dir", files |-> <<N_b>>, dirs |-> <<>>]) @@
    (<<N_sys>> :> [kind |-> "dir", files |-> <<>>,
                   dirs |-> <<N_block, N_blockdev>>]) @@
    (<<N_sys, N_block>> :> [kind |-> "dir", files |-> <<N_b>>, dirs |-> <<>>]) @@
    (<<N_sys, N_blockdev>> :> [kind |-> "dir", files |-> <<N_b>>, dirs |-> <<>>]) @@
    (<<N_r>> :> [kind |-> "dir", files |-> <<N_Ab, N_c>>,
                 dirs |-> <<N_ln, N_sb, N_zz>>]) @@
    (<<N_r, N_ln>> :> [kind |-> "link", target |-> <<N_r>>]) @@
    (<<N_r, N_sb>> :> [kind |-> "dir", files |-> <<N_ab>>,
                       dirs |-> <<N_B, N_up>>]) @@
    (<<N_r, N_sb, N_B>> :> [kind |-> "dir", files |-> <<N_b>>, dirs |-> <<>>]) @@
    (<<N_r, N_sb, N_up>> :> [kind |-> "link", target |-> <<N_r>>])

\* the node q, or the target of q when q is a symbolic link
Follow(q) == IF q \in DOMAIN Fs /\ Fs[q].kind = "link" THEN Fs[q].target ELSE q

\* the node the first n components name, every link followed
RECURSIVE ResolveTo(_, _)
ResolveTo(comps, n) ==
    IF n = 0 THEN <<>>
    ELSE CHOOSE r \in {Follow(q) : q \in {Append(ResolveTo(comps, n - 1), comps[n])}} :
             TRUE
\* the node a component path names, every link followed
Resolve(comps) == ResolveTo(comps, Len(comps))
\* the node a component path names, a link in its last component not followed
Locate(comps) ==
    IF comps = <<>> THEN <<>>
    ELSE Append(ResolveTo(comps, Len(comps) - 1), comps[Len(comps)])

\* QFileInfo(path).isSymLink()
isSymLink(path) ==
    \E comps \in {Components(path)} :
        \E q \in {Locate(comps)} : q \in DOMAIN Fs /\ Fs[q].kind = "link"
\* QDir(path).exists()
dirExists(path) ==
    \E comps \in {Components(path)} :
        \E q \in {Resolve(comps)} : q \in DOMAIN Fs /\ Fs[q].kind = "dir"
\* QDir(path).entryList(QDir::Files)
entryListFiles(path) ==
    CHOOSE names \in {Fs[q].files : q \in {Resolve(c) : c \in {Components(path)}}} : TRUE
\* QDir(path).entryList(QDir::NoDotAndDotDot | QDir::AllDirs)
entryListDirs(path) ==
    CHOOSE names \in {Fs[q].dirs : q \in {Resolve(c) : c \in {Components(path)}}} : TRUE

-----------------------------------------------------------------------------
(* SearchWorker *)

ErrSearchRunning == "Search already in progress"
ErrBadSearch == "Bad search parameters"

P_r == Slash \o N_r
P_sb == P_r \o Slash \o N_sb
\* the arguments a caller passes
SearchDirs == {<<>>, Slash, P_r, P_sb}
SearchTerms == {<<>>, <<"b">>, <<"A", "B">>, <<"u">>}

InitSearch ==
    /\ s_directory = <<>>
    /\ s_searchTerm = <<>>
    /\ s_currentDirectory = <<>>
    /\ s_cancelled = "KeepRunning"
    /\ s_running = FALSE
    /\ s_pc = "idle"
    /\ s_stack = <<>>
    /\ s_errMsg = ""
    /\ s_events = <<>>
    /\ s_lastStart = [directory |-> <<>>, searchTerm |-> <<>>, answer |-> "none"]
    /\ searches = 0
    /\ s_cancelReq = FALSE
    /\ s_eventsAtCancel = 0

\* startSearch with the test of the parameters before the test of isRunning()
startSearchParamsFirst(directory, searchTerm) ==
    IF directory = <<>> \/ searchTerm = <<>>
    THEN /\ s_lastStart' = [directory |-> directory, searchTerm |-> searchTerm,
                            answer |-> ErrBadSearch]
         /\ UNCHANGED <<s_directory, s_searchTerm, s_currentDirectory,
                        s_cancelled, s_running, s_pc, s_stack, s_errMsg,
                        s_events, searches, s_cancelReq, s_eventsAtCancel>>
         /\ UNCHANGED <<workerVars, fileModel, policyVars>>
    ELSE IF s_running
    THEN /\ s_lastStart' = [directory |-> directory, searchTerm |-> searchTerm,
                            answer |-> ErrSearchRunning]
         /\ UNCHANGED <<s_directory, s_searchTerm, s_currentDirectory,
                        s_cancelled, s_running, s_pc, s_stack, s_errMsg,
                        s_events, searches, s_cancelReq, s_eventsAtCancel>>
         /\ UNCHANGED <<workerVars, fileModel, policyVars>>
    ELSE /\ searches < MaxSearches
         /\ s_directory' = directory
         /\ s_searchTerm' = searchTerm
         /\ s_currentDirectory' = directory
         /\ s_cancelled' = "KeepRunning"
         /\ s_running' = TRUE
         /\ s_pc' = "run"
         /\ s_lastStart' = [directory |-> directory, searchTerm |-> searchTerm,
                            answer |-> "accepted"]
         /\ searches' = searches + 1
         /\ s_events' = <<>>
         /\ s_cancelReq' = FALSE
         /\ s_eventsAtCancel' = 0
         /\ UNCHANGED <<s_stack, s_errMsg>>
         /\ UNCHANGED <<workerVars, fileModel, policyVars>>

\* startSearch(directory, searchTerm); an error it emits carries "" as the
\* directory
startSearch(directory, searchTerm) ==
    IF s_running
    THEN /\ s_lastStart' = [directory |-> directory, searchTerm |-> searchTerm,
                            answer |-> ErrSearchRunning]
         /\ UNCHANGED <<s_directory, s_searchTerm, s_currentDirectory,
                        s_cancelled, s_running, s_pc, s_stack, s_errMsg,
                        s_events, searches, s_cancelReq, s_eventsAtCancel>>
         /\ UNCHANGED <<workerVars, fileModel, policyVars>>
    ELSE IF directory = <<>> \/ searchTerm = <<>>
    THEN /\ s_lastStart' = [directory |-> directory, searchTerm |-> searchTerm,
                            answer |-> ErrBadSearch]
         /\ UNCHANGED <<s_directory, s_searchTerm, s_currentDirectory,
                        s_cancelled, s_running, s_pc, s_stack, s_errMsg,
                        s_events, searches, s_cancelReq, s_eventsAtCancel>>
         /\ UNCHANGED <<workerVars, fileModel, policyVars>>
    ELSE /\ searches < MaxSearches
         /\ s_directory' = directory
         /\ s_searchTerm' = searchTerm
         /\ s_currentDirectory' = directory
         /\ s_cancelled' = "KeepRunning"
         /\ s_running' = TRUE
         /\ s_pc' = "run"
         /\ s_lastStart' = [directory |-> directory, searchTerm |-> searchTerm,
                            answer |-> "accepted"]
         /\ searches' = searches + 1
         /\ s_events' = <<>>
         /\ s_cancelReq' = FALSE
         /\ s_eventsAtCancel' = 0
         /\ UNCHANGED <<s_stack, s_errMsg>>
         /\ UNCHANGED <<workerVars, fileModel, policyVars>>

StartSearch ==
    \E directory \in SearchDirs, searchTerm \in SearchTerms :
        startSearch(directory, searchTerm)

\* SearchWorker::cancel
searchCancel ==
    /\ s_cancelled' = "Cancelled"
    /\ s_cancelReq' = (s_cancelReq \/ s_running)
    /\ s_eventsAtCancel' = IF s_running /\ ~s_cancelReq THEN Len(s_events)
                           ELSE s_eventsAtCancel
    /\ UNCHANGED <<s_directory, s_searchTerm, s_currentDirectory, s_running,
                   s_pc, s_stack, s_errMsg, s_events, s_lastStart, searches>>
    /\ UNCHANGED <<workerVars, fileModel, policyVars>>

\* variables the search thread never writes
searchCallerVars == <<s_directory, s_searchTerm, s_cancelled, s_lastStart,
                      searches, s_cancelReq, s_eventsAtCancel>>

\* the innermost call of searchRecursively
Top == s_stack[Len(s_stack)]
\* a call of searchRecursively(directory, searchTerm) that has just begun
Call(directory, searchTerm) ==
    [directory |-> directory, searchTerm |-> searchTerm, at |-> "entry",
     names |-> <<>>, idx |-> 0]
\* the innermost call with some of its locals changed
WithTop(frame) == [s_stack EXCEPT ![Len(s_stack)] = frame]

\* the innermost call returns errmsg: its caller goes on after the call (a
\* non-empty errmsg is returned on, an empty one continues the loop), or
\* run() has the result
ReturnFromCall(errmsg) ==
    /\ s_errMsg' = errmsg
    /\ IF Len(s_stack) = 1
       THEN /\ s_stack' = <<>>
            /\ s_pc' = "result"
       ELSE /\ s_stack' = [k \in 1..(Len(s_stack) - 1) |->
                              IF k = Len(s_stack) - 1
                              THEN [s_stack[k] EXCEPT !.at = "returned"]
                              ELSE s_stack[k]]
            /\ s_pc' = s_pc

\* run(): the call searchRecursively(m_directory, m_searchTerm.toLower())
SearchRun ==
    /\ s_pc = "run"
    /\ s_stack' = <<Call(s_directory, toLower(s_searchTerm))>>
    /\ s_pc' = "search"
    /\ UNCHANGED <<s_currentDirectory, s_running, s_errMsg, s_events>>
    /\ UNCHANGED <<searchCallerVars, workerVars, fileModel, policyVars>>

\* searchRecursively entering a directory without the test for a symbolic link
SearchEnterFollowLinks ==
    /\ s_pc = "search"
    /\ Top.at = "entry"
    /\ IF \/ startsWith(Top.directory, ProcPrefix)
          \/ startsWith(Top.directory, SysBlockPrefix)
          \/ ~dirExists(Top.directory)
       THEN /\ ReturnFromCall("")
            /\ UNCHANGED <<s_currentDirectory, s_events>>
       ELSE /\ s_currentDirectory' = Top.directory
            /\ s_events' = Append(s_events, [sig |-> "progressChanged",
                                             text |-> Top.directory])
            /\ s_stack' = WithTop([Top EXCEPT !.at = "files", !.idx = 0,
                                       !.names = entryListFiles(Top.directory)])
            /\ UNCHANGED <<s_pc, s_errMsg>>
    /\ UNCHANGED s_running
    /\ UNCHANGED <<searchCallerVars, workerVars, fileModel, policyVars>>

\* searchRecursively from its entry to the list of the files: the skipped
\* system folders, symbolic links and missing directories, then
\* progressChanged(directory)
SearchEnter ==
    /\ s_pc = "search"
    /\ Top.at = "entry"
    /\ IF \/ startsWith(Top.directory, ProcPrefix)
          \/ startsWith(Top.directory, SysBlockPrefix)
          \/ isSymLink(Top.directory)
          \/ ~dirExists(Top.directory)
       THEN /\ ReturnFromCall("")
            /\ UNCHANGED <<s_currentDirectory, s_events>>
       ELSE /\ s_currentDirectory' = Top.directory
            /\ s_events' = Append(s_events, [sig |-> "progressChanged",
                                             text |-> Top.directory])
            /\ s_stack' = WithTop([Top EXCEPT !.at = "files", !.idx = 0,
                                       !.names = entryListFiles(Top.directory)])
            /\ UNCHANGED <<s_pc, s_errMsg>>
    /\ UNCHANGED s_running
    /\ UNCHANGED <<searchCallerVars, workerVars, fileModel, policyVars>>

\* the head of the loop over the files without the load of the flag
SearchFileLoopNoCheck ==
    /\ s_pc = "search"
    /\ Top.at = "files"
    /\ IF Top.idx < Len(Top.names)
       THEN /\ s_stack' = WithTop([Top EXCEPT !.at = "fileBody"])
            /\ UNCHANGED <<s_pc, s_errMsg>>
       ELSE /\ s_stack' = WithTop([Top EXCEPT !.at = "dirs", !.idx = 0,
                                       !.names = entryListDirs(Top.directory)])
            /\ UNCHANGED <<s_pc, s_errMsg>>
    /\ UNCHANGED <<s_currentDirectory, s_running, s_events>>
    /\ UNCHANGED <<searchCallerVars, workerVars, fileModel, policyVars>>

\* the head of the loop over the files: the loop test and the load of the
\* cancellation flag; after the loop, the list of the subdirectories
SearchFileLoop ==
    /\ s_pc = "search"
    /\ Top.at = "files"
    /\ IF Top.idx < Len(Top.names)
       THEN IF s_cancelled = "Cancelled"
            THEN ReturnFromCall("")
            ELSE /\ s_stack' = WithTop([Top EXCEPT !.at = "fileBody"])
                 /\ UNCHANGED <<s_pc, s_errMsg>>
       ELSE /\ s_stack' = WithTop([Top EXCEPT !.at = "dirs", !.idx = 0,
                                       !.names = entryListDirs(Top.directory)])
            /\ UNCHANGED <<s_pc, s_errMsg>>
    /\ UNCHANGED <<s_currentDirectory, s_running, s_events>>
    /\ UNCHANGED <<searchCallerVars, workerVars, fileModel, policyVars>>

\* the body of the loop over the files comparing the name as it is spelled
SearchFileBodyCaseSensitive ==
    /\ s_pc = "search"
    /\ Top.at = "fileBody"
    /\ LET filename == Top.names[Top.idx + 1]
           fullpath == absoluteFilePath(Top.directory, filename)
       IN  s_events' = IF indexOfFound(filename, Top.searchTerm)
                       THEN Append(s_events, [sig |-> "matchFound", text |-> fullpath])
                       ELSE s_events
    /\ s_stack' = WithTop([Top EXCEPT !.at = "files", !.idx = Top.idx + 1])
    /\ UNCHANGED <<s_currentDirectory, s_running, s_pc, s_errMsg>>
    /\ UNCHANGED <<searchCallerVars, workerVars, fileModel, policyVars>>

\* the body of the loop over the files: matchFound(fullpath) on a match
SearchFileBody ==
    /\ s_pc = "search"
    /\ Top.at = "fileBody"
    /\ LET filename == Top.names[Top.idx + 1]
           fullpath == absoluteFilePath(Top.directory, filename)
       IN  s_events' = IF indexOfFound(toLower(filename), Top.searchTerm)
                       THEN Append(s_events, [sig |-> "matchFound", text |-> fullpath])
                       ELSE s_events
    /\ s_stack' = WithTop([Top EXCEPT !.at = "files", !.idx = Top.idx + 1])
    /\ UNCHANGED <<s_currentDirectory, s_running, s_pc, s_errMsg>>
    /\ UNCHANGED <<searchCallerVars, workerVars, fileModel, policyVars>>

\* the head of the loop over the subdirectories without the load of the
\* cancellation flag
SearchDirLoopNoCheck ==
    /\ s_pc = "search"
    /\ Top.at = "dirs"
    /\ IF Top.idx < Len(Top.names)
       THEN /\ s_stack' = WithTop([Top EXCEPT !.at = "dirBody"])
            /\ UNCHANGED <<s_pc, s_errMsg>>
       ELSE ReturnFromCall("")
    /\ UNCHANGED <<s_currentDirectory, s_running, s_events>>
    /\ UNCHANGED <<searchCallerVars, workerVars, fileModel, policyVars>>

\* the head of the loop over the subdirectories; after the loop the call
\* returns the empty string
SearchDirLoop ==
    /\ s_pc = "search"
    /\ Top.at = "dirs"
    /\ IF Top.idx < Len(Top.names)
       THEN IF s_cancelled = "Cancelled"
            THEN ReturnFromCall("")
            ELSE /\ s_stack' = WithTop([Top EXCEPT !.at = "dirBody"])
                 /\ UNCHANGED <<s_pc, s_errMsg>>
       ELSE ReturnFromCall("")
    /\ UNCHANGED <<s_currentDirectory, s_running, s_events>>
    /\ UNCHANGED <<searchCallerVars, workerVars, fileModel, policyVars>>

\* the body of the loop over the subdirectories with the name of a symbolic
\* link left unmatched
SearchDirBodyLinkUnmatched ==
    /\ s_pc = "search"
    /\ Top.at = "dirBody"
    /\ Len(s_stack) < MaxDepth
    /\ LET filename == Top.names[Top.idx + 1]
           fullpath == absoluteFilePath(Top.directory, filename)
       IN  /\ s_events' = IF /\ ~isSymLink(fullpath)
                             /\ indexOfFound(toLower(filename), Top.searchTerm)
                          THEN Append(s_events, [sig |-> "matchFound", text |-> fullpath])
                          ELSE s_events
           /\ s_stack' = Append(WithTop([Top EXCEPT !.at = "call"]),
                                Call(fullpath, Top.searchTerm))
    /\ UNCHANGED <<s_currentDirectory, s_running, s_pc, s_errMsg>>
    /\ UNCHANGED <<searchCallerVars, workerVars, fileModel, policyVars>>

\* the body of the loop over the subdirectories: matchFound(fullpath) on a
\* match, then the recursive call
SearchDirBody ==
    /\ s_pc = "search"
    /\ Top.at = "dirBody"
    /\ Len(s_stack) < MaxDepth
    /\ LET filename == Top.names[Top.idx + 1]
           fullpath == absoluteFilePath(Top.directory, filename)
       IN  /\ s_events' = IF indexOfFound(toLower(filename), Top.searchTerm)
                          THEN Append(s_events, [sig |-> "matchFound", text |-> fullpath])
                          ELSE s_events
           /\ s_stack' = Append(WithTop([Top EXCEPT !.at = "call"]),
                                Call(fullpath, Top.searchTerm))
    /\ UNCHANGED <<s_currentDirectory, s_running, s_pc, s_errMsg>>
    /\ UNCHANGED <<searchCallerVars, workerVars, fileModel, policyVars>>

\* after the recursive call: a non-empty errmsg is returned on, otherwise the
\* loop goes to the next subdirectory
SearchAfterCall ==
    /\ s_pc = "search"
    /\ Top.at = "returned"
    /\ IF s_errMsg # ""
       THEN ReturnFromCall(s_errMsg)
       ELSE /\ s_stack' = WithTop([Top EXCEPT !.at = "dirs", !.idx = Top.idx + 1])
            /\ UNCHANGED <<s_pc, s_errMsg>>
    /\ UNCHANGED <<s_currentDirectory, s_running, s_events>>
    /\ UNCHANGED <<searchCallerVars, workerVars, fileModel, policyVars>>

\* run() after the search, silent when the search was cancelled
SearchResultSilentCancel ==
    /\ s_pc = "result"
    /\ s_events' =
          IF s_cancelled = "Cancelled" THEN s_events
          ELSE (IF s_errMsg # ""
                THEN Append(s_events, [sig |-> "errorOccurred", text |-> s_currentDirectory])
                ELSE s_events)
               \o <<[sig |-> "progressChanged", text |-> <<>>]>>
    /\ s_pc' = "emitDone"
    /\ UNCHANGED <<s_currentDirectory, s_running, s_stack, s_errMsg>>
    /\ UNCHANGED <<searchCallerVars, workerVars, fileModel, policyVars>>

\* run() after the search: errorOccurred(errMsg, m_currentDirectory) when
\* errMsg is not empty, then progressChanged("")
SearchResult ==
    /\ s_pc = "result"
    /\ s_events' =
          (IF s_errMsg # ""
           THEN Append(s_events, [sig |-> "errorOccurred", text |-> s_currentDirectory])
           ELSE s_events)
          \o <<[sig |-> "progressChanged", text |-> <<>>]>>
    /\ s_pc' = "emitDone"
    /\ UNCHANGED <<s_currentDirectory, s_running, s_stack, s_errMsg>>
    /\ UNCHANGED <<searchCallerVars, workerVars, fileModel, policyVars>>

\* run(): done(), and the thread ends
SearchDone ==
    /\ s_pc = "emitDone"
    /\ s_events' = Append(s_events, [sig |-> "done", text |-> <<>>])
    /\ s_pc' = "idle"
    /\ s_running' = FALSE
    /\ UNCHANGED <<s_currentDirectory, s_stack, s_errMsg>>
    /\ UNCHANGED <<searchCallerVars, workerVars, fileModel, policyVars>>

\* the steps of the search thread
SearchThread ==
    \/ SearchRun
    \/ SearchEnter
    \/ SearchFileLoop
    \/ SearchFileBody
    \/ SearchDirLoop
    \/ SearchDirBody
    \/ SearchAfterCall
    \/ SearchResult
    \/ SearchDone

-----------------------------------------------------------------------------
(* FileModel: the filter *)

Backslash == "\\"

\* str from position k on with every before replaced by after
RECURSIVE ReplaceFrom(_, _, _, _)
ReplaceFrom(str, before, after, k) ==
    IF k > Len(str) THEN <<>>
    ELSE (IF str[k] = before THEN after ELSE <<str[k]>>)
         \o ReplaceFrom(str, before, after, k + 1)

\* QString::replace(before, after) for a one-character before
replace(str, before, after) ==
    CHOOSE r \in {ReplaceFrom(s, before, after, 1) : s \in {str}} : TRUE

\* m_filterString.replace(".", "\\.").replace("?", ".").replace("*", ".*?")
FilterPattern(filterString) ==
    replace(replace(replace(filterString, ".", <<Backslash, ".">>), "?", <<".">>),
            "*", <<".", "*", "?">>)

\* the pieces of the regular expression from position k on: characters,
\* escaped characters, "." and ".*" or ".*?"
RECURSIVE RegexTokens(_, _)
RegexTokens(pattern, k) ==
    IF k > Len(pattern) THEN <<>>
    ELSE IF pattern[k] = Backslash /\ k < Len(pattern)
    THEN <<[t |-> "char", c |-> pattern[k + 1]]>> \o RegexTokens(pattern, k + 2)
    ELSE IF pattern[k] = "." /\ k < Len(pattern) /\ pattern[k + 1] = "*"
    THEN <<[t |-> "anyStar", c |-> "."]>>
         \o RegexTokens(pattern,
                        IF k + 1 < Len(pattern) /\ pattern[k + 2] = "?"
                        THEN k + 3 ELSE k + 2)
    ELSE IF pattern[k] = "."
    THEN <<[t |-> "any", c |-> "."]>> \o RegexTokens(pattern, k + 1)
    ELSE <<[t |-> "char", c |-> pattern[k]]>> \o RegexTokens(pattern, k + 1)

\* the tokens from the n-th on match str from position k on, letters compared
\* without case
RECURSIVE MatchHere(_, _, _, _)
MatchHere(tokens, n, str, k) ==
    IF n > Len(tokens) THEN TRUE
    ELSE IF tokens[n].t = "anyStar"
    THEN \E j \in k..(Len(str) + 1) : MatchHere(tokens, n + 1, str, j)
    ELSE /\ k <= Len(str)
         /\ \/ tokens[n].t = "any"
            \/ LowerChar(tokens[n].c) = LowerChar(str[k])
         /\ MatchHere(tokens, n + 1, str, k + 1)

\* QRegularExpression(pattern, CaseInsensitiveOption).match(str).hasMatch():
\* the expression matches somewhere in str
hasMatch(pattern, str) ==
    \E tokens \in {RegexTokens(pattern, 1)} :
        \E k \in 1..(Len(str) + 1) : MatchHere(tokens, 1, str, k)

-----------------------------------------------------------------------------
(* FileModel: the directories and what they hold *)

D_d == <<"/", "d">>
D_x == <<"/", "x">>
D_u == <<"/", "u">>
\* the paths a caller passes to setDir: none, a directory, a missing one, an
\* unreadable one
ModelDirs == {<<>>, D_d, D_x, D_u}

N_apple == <<"a", "p", "p", "l", "e">>
N_banana == <<"b", "a", "n", "a", "n", "a">>
N_cherry == <<"c", "h", "e", "r", "r", "y">>
F_apple == StatFileInfo(N_apple, 10, "rw-", 1, FALSE, FALSE)
\* apple after it was written to
F_apple2 == StatFileInfo(N_apple, 11, "rw-", 2, FALSE, FALSE)
F_banana == StatFileInfo(N_banana, 20, "rw-", 1, FALSE, FALSE)
F_cherry == StatFileInfo(N_cherry, 15, "rw-", 1, FALSE, FALSE)

\* what a read of /d can find, in the order of entryList()
ModelListings == {<<>>, <<F_apple, F_banana, F_cherry>>, <<F_apple, F_banana>>,
                  <<F_banana, F_cherry>>, <<F_apple2, F_banana, F_cherry>>}
\* QDir dir(m_dir) as a call finds it: dir.exists(), dir.isReadable() and what
\* dir.entryList() returns
QDir(exists, isReadable, entryList) ==
    [exists |-> exists, isReadable |-> isReadable, entryList |-> entryList]
MissingDir == QDir(FALSE, FALSE, <<>>)
UnreadableDir == QDir(TRUE, FALSE, <<>>)
\* what a call can find at path: /d holds one of the listings, or has been
\* removed or made unreadable; /x is missing; /u is unreadable
QDirs(path) ==
    IF path = D_d
    THEN {QDir(TRUE, TRUE, l) : l \in ModelListings} \cup {MissingDir, UnreadableDir}
    ELSE IF path = D_u THEN {UnreadableDir}
    ELSE {MissingDir}

\* dir.entryList() after applySettings(dir) has set the sorting: the entries
\* the filter flags admit, in name order, from the last to the first when the
\* order flag is QDir::Reversed
EntryListAs(entries, reversed) ==
    IF reversed
    THEN [k \in 1..Len(entries) |-> entries[Len(entries) + 1 - k]]
    ELSE entries

\* the filter strings a caller sets
FilterStrings == {<<>>, <<"A", "*">>}
\* the path lists a caller passes to markAsDoomed
DoomedPaths == {{absoluteFilePath(D_d, N_apple)},
                {absoluteFilePath(D_d, N_banana), absoluteFilePath(D_d, N_cherry)}}

-----------------------------------------------------------------------------
(* FileModel: its methods, each a function of the object before the call *)

InitModel ==
    fileModel = [m_files |-> <<>>, m_selectedFileCount |-> 0,
                 m_matchedFileCount |-> 0, m_active |-> FALSE, m_dirty |-> FALSE,
                 m_dir |-> <<>>, m_filterString |-> <<>>, m_errorMessage |-> "",
                 watched |-> {}, lastOp |-> "FileModel", signals |-> <<>>,
                 reads |-> <<>>]

\* F of the value of v, the value computed once
Eval(v, F(_)) == CHOOSE r \in {F(x) : x \in {v}} : TRUE

\* emit sig(); row is the row of a row signal, -1 otherwise
Emit(fm, sig) == [fm EXCEPT !.signals = Append(@, [sig |-> sig, row |-> -1])]
EmitRow(fm, sig, row) == [fm EXCEPT !.signals = Append(@, [sig |-> sig, row |-> row])]
\* emit dataChanged(index(row, 0), index(row, 0)) for each of the rows in turn
EmitDataChanged(fm, rows) ==
    [fm EXCEPT !.signals = @ \o [k \in 1..Len(rows) |->
                                    [sig |-> "dataChanged", row |-> rows[k]]]]
\* the rows 0 .. n-1 for which Test holds
RowsWhere(n, Test(_)) == SelectSeq([k \in 1..n |-> k - 1], Test)
\* the number of entries for which Test holds
CountWhere(files, Test(_)) == Cardinality({k \in 1..Len(files) : Test(files[k])})

\* FileModel::filesContains compared on the name only
modelFilesContainsByName(files, fileData) ==
    \E k \in 1..Len(files) : files[k].fileName = fileData.fileName

\* FileModel::filesContains
modelFilesContains(files, fileData) ==
    \E k \in 1..Len(files) :
        /\ files[k].fileName = fileData.fileName
        /\ files[k].size = fileData.size
        /\ files[k].permissions = fileData.permissions
        /\ files[k].lastModified = fileData.lastModified
        /\ files[k].isSymLink = fileData.isSymLink
        /\ files[k].isDirAtEnd = fileData.isDirAtEnd

\* applyFilterString, the loop over m_files: matches[k] is
\* filter.match(info.fileName()).hasMatch() for the k-th entry
FilterLoop(fm, matches) ==
    LET touched(k) == \/ fm.m_files[k].isMatched # matches[k]
                      \/ (~matches[k] /\ fm.m_files[k].isSelected)
        files == [k \in 1..Len(fm.m_files) |->
                     IF touched(k)
                     THEN [fm.m_files[k] EXCEPT
                              !.isMatched = matches[k],
                              !.isSelected = IF matches[k] THEN @ ELSE FALSE]
                     ELSE fm.m_files[k]]
        rows == RowsWhere(Len(fm.m_files), LAMBDA r : touched(r + 1))
        count == CountWhere(files, LAMBDA e : e.isSelected)
        fm1 == EmitDataChanged(
                   [fm EXCEPT !.m_files = files,
                              !.m_matchedFileCount =
                                  Cardinality({k \in 1..Len(matches) : matches[k]})],
                   rows)
    IN  IF count # fm.m_selectedFileCount
        THEN Emit([fm1 EXCEPT !.m_selectedFileCount = count], "selectedFileCountChanged")
        ELSE fm1

\* FileModel::applyFilterString: the replace calls rewrite m_filterString
applyFilterString(fm) ==
    Eval(fm, LAMBDA f :
        Eval(FilterPattern(f.m_filterString), LAMBDA translated :
            Eval([k \in 1..Len(f.m_files) |->
                     hasMatch(IF translated = <<>> THEN <<".", "*">> ELSE translated,
                              f.m_files[k].fileName)],
                 LAMBDA matches :
                     FilterLoop([f EXCEPT !.m_filterString = translated], matches))))

\* FileModel::recountSelectedFiles
recountSelectedFiles(fm) ==
    LET selectedCount == CountWhere(fm.m_files, LAMBDA e : e.isSelected)
        matchedCount == CountWhere(fm.m_files, LAMBDA e : e.isMatched)
        fm1 == IF fm.m_selectedFileCount # selectedCount
               THEN Emit([fm EXCEPT !.m_selectedFileCount = selectedCount],
                         "selectedFileCountChanged")
               ELSE fm
    IN  IF fm1.m_matchedFileCount # matchedCount
        THEN Emit([fm1 EXCEPT !.m_matchedFileCount = matchedCount],
                  "filteredFileCountChanged")
        ELSE fm1

\* FileModel::readAllEntries; qdir is QDir dir(m_dir)
readAllEntries(fm, qdir) ==
    IF ~qdir.exists
    THEN [fm EXCEPT !.m_errorMessage = ErrNoFolder]
    ELSE IF ~qdir.isReadable
    THEN [fm EXCEPT !.m_errorMessage = ErrNoPermission]
    ELSE applyFilterString([fm EXCEPT !.m_files = @ \o qdir.entryList,
                                      !.reads = Append(@, "entryList")])

\* FileModel::readDirectory
readDirectory(fm, qdir) ==
    LET fm1 == [Emit(fm, "modelAboutToBeReset") EXCEPT !.m_files = <<>>,
                                                       !.m_errorMessage = ""]
        fm2 == IF fm1.m_dir # <<>> THEN readAllEntries(fm1, qdir) ELSE fm1
    IN  recountSelectedFiles(
            Emit(Emit(Emit(fm2, "modelReset"), "fileCountChanged"),
                 "errorMessageChanged"))

\* clearModel that leaves the rows in place
clearModelKeepsRows(fm) ==
    Emit(Emit(Emit(fm, "modelAboutToBeReset"), "modelReset"), "fileCountChanged")

\* FileModel::clearModel
clearModel(fm) ==
    Emit(Emit([Emit(fm, "modelAboutToBeReset") EXCEPT !.m_files = <<>>],
              "modelReset"),
         "fileCountChanged")

\* refreshEntries, the loop of the removes: from row down to 0
RECURSIVE RemoveLoop(_, _, _)
RemoveLoop(fm, fresh, row) ==
    IF row < 0 THEN fm
    ELSE IF ~modelFilesContains(fresh, fm.m_files[row + 1])
    THEN RemoveLoop(EmitRow([fm EXCEPT !.m_files = RemoveAt(@, row)],
                            "rowsRemoved", row),
                    fresh, row - 1)
    ELSE RemoveLoop(fm, fresh, row - 1)

\* refreshEntries, the loop of the inserts: from row up to the last new file
RECURSIVE InsertLoop(_, _, _)
InsertLoop(fm, fresh, row) ==
    IF row >= Len(fresh) THEN fm
    ELSE IF ~modelFilesContains(fm.m_files, fresh[row + 1])
    THEN InsertLoop(EmitRow([fm EXCEPT !.m_files = InsertAt(@, row, fresh[row + 1])],
                            "rowsInserted", row),
                    fresh, row + 1)
    ELSE InsertLoop(fm, fresh, row + 1)

\* refreshEntries, its two loops on a model that holds old and reads fresh:
\* the row signals in emission order and the listing they leave
ModelDiff(old, fresh) ==
    InsertLoop(RemoveLoop([m_files |-> old, signals |-> <<>>], fresh, Len(old) - 1),
               fresh, 0)

\* FileModel::refreshEntries; qdir is QDir dir(m_dir)
refreshEntries(fm, qdir) ==
    LET fm0 == [fm EXCEPT !.m_errorMessage = "", !.reads = Append(@, "refreshEntries")]
    IN  IF fm0.m_dir = <<>>
        THEN Emit(clearModel(fm0), "errorMessageChanged")
        ELSE IF ~qdir.exists
        THEN Emit([clearModel(fm0) EXCEPT !.m_errorMessage = ErrNoFolder],
                  "errorMessageChanged")
        ELSE IF ~qdir.isReadable
        THEN Emit([clearModel(fm0) EXCEPT !.m_errorMessage = ErrNoPermission],
                  "errorMessageChanged")
        ELSE LET oldFileCount == Len(fm0.m_files)
                 fm1 == RemoveLoop([fm0 EXCEPT !.reads = Append(@, "entryList")],
                                   qdir.entryList, oldFileCount - 1)
                 fm2 == applyFilterString(InsertLoop(fm1, qdir.entryList, 0))
                 fm3 == IF Len(fm2.m_files) # oldFileCount
                        THEN Emit(fm2, "fileCountChanged") ELSE fm2
             IN  recountSelectedFiles(Emit(fm3, "errorMessageChanged"))

\* setDir without the reset of m_dirty
setDirKeepsDirty(fm, dir, qdir) ==
    IF fm.m_dir = dir THEN fm
    ELSE LET fm1 == [fm EXCEPT !.watched = (@ \ (IF fm.m_dir # <<>> THEN {fm.m_dir} ELSE {}))
                                           \cup (IF dir # <<>> THEN {dir} ELSE {}),
                               !.m_dir = dir]
         IN  Emit(readDirectory(fm1, qdir), "dirChanged")

\* FileModel::setDir
setDir(fm, dir, qdir) ==
    IF fm.m_dir = dir THEN fm
    ELSE LET fm1 == [fm EXCEPT !.watched = (@ \ (IF fm.m_dir # <<>> THEN {fm.m_dir} ELSE {}))
                                           \cup (IF dir # <<>> THEN {dir} ELSE {}),
                               !.m_dir = dir]
         IN  Emit([readDirectory(fm1, qdir) EXCEPT !.m_dirty = FALSE], "dirChanged")

\* setActive without the reset of m_dirty
setActiveKeepsDirty(fm, active, qdir) ==
    IF fm.m_active = active THEN fm
    ELSE LET fm1 == Emit([fm EXCEPT !.m_active = active], "activeChanged")
         IN  IF fm1.m_dirty THEN refreshEntries(fm1, qdir) ELSE fm1

\* FileModel::setActive
setActive(fm, active, qdir) ==
    IF fm.m_active = active THEN fm
    ELSE LET fm1 == Emit([fm EXCEPT !.m_active = active], "activeChanged")
             fm2 == IF fm1.m_dirty THEN refreshEntries(fm1, qdir) ELSE fm1
         IN  [fm2 EXCEPT !.m_dirty = FALSE]

\* FileModel::setFilterString; filterStringChanged() is connected to
\* applyFilterString()
setFilterString(fm, newFilter) ==
    applyFilterString(Emit([fm EXCEPT !.m_filterString = newFilter],
                           "filterStringChanged"))

\* FileModel::fileNameAt; StatFileInfo::absoluteFilePath is the path of the
\* entry in m_dir
fileNameAt(fm, fileIndex) ==
    IF fileIndex < 0 \/ fileIndex >= Len(fm.m_files) THEN <<>>
    ELSE absoluteFilePath(fm.m_dir, fm.m_files[fileIndex + 1].fileName)

\* toggleSelectedFile announcing the count for an index out of range
toggleSelectedFileNotifies(fm, fileIndex) ==
    IF fileIndex >= Len(fm.m_files) \/ fileIndex < 0
    THEN Emit(fm, "selectedFileCountChanged")
    ELSE LET was == fm.m_files[fileIndex + 1].isSelected
         IN  Emit(EmitRow([fm EXCEPT !.m_files[fileIndex + 1].isSelected = ~was,
                                     !.m_selectedFileCount = IF was THEN @ - 1 ELSE @ + 1],
                          "dataChanged", fileIndex),
                  "selectedFileCountChanged")

\* FileModel::toggleSelectedFile
toggleSelectedFile(fm, fileIndex) ==
    IF fileIndex >= Len(fm.m_files) \/ fileIndex < 0 THEN fm
    ELSE LET was == fm.m_files[fileIndex + 1].isSelected
         IN  Emit(EmitRow([fm EXCEPT !.m_files[fileIndex + 1].isSelected = ~was,
                                     !.m_selectedFileCount = IF was THEN @ - 1 ELSE @ + 1],
                          "dataChanged", fileIndex),
                  "selectedFileCountChanged")

\* FileModel::clearSelectedFiles
clearSelectedFiles(fm) ==
    Emit(EmitDataChanged(
             [fm EXCEPT !.m_files = [k \in 1..Len(fm.m_files) |->
                                        [fm.m_files[k] EXCEPT !.isSelected = FALSE]],
                        !.m_selectedFileCount = 0],
             RowsWhere(Len(fm.m_files), LAMBDA r : TRUE)),
         "selectedFileCountChanged")

\* FileModel::selectAllFiles
selectAllFiles(fm) ==
    Emit(EmitDataChanged(
             [fm EXCEPT !.m_files = [k \in 1..Len(fm.m_files) |->
                                        IF fm.m_files[k].isMatched
                                        THEN [fm.m_files[k] EXCEPT !.isSelected = TRUE]
                                        ELSE fm.m_files[k]],
                        !.m_selectedFileCount =
                            CountWhere(fm.m_files, LAMBDA e : e.isMatched)],
             RowsWhere(Len(fm.m_files), LAMBDA r : fm.m_files[r + 1].isMatched)),
         "selectedFileCountChanged")

\* selectRange without the swap of reversed bounds
selectRangeNoSwap(fm, firstIndex, lastIndex, selected) ==
    IF \/ firstIndex >= Len(fm.m_files) \/ firstIndex < 0
       \/ lastIndex >= Len(fm.m_files) \/ lastIndex < 0
    THEN fm
    ELSE LET touched(r) == /\ r >= firstIndex
                           /\ r <= lastIndex
                           /\ fm.m_files[r + 1].isMatched
                           /\ fm.m_files[r + 1].isSelected # selected
             files == [k \in 1..Len(fm.m_files) |->
                          IF touched(k - 1)
                          THEN [fm.m_files[k] EXCEPT !.isSelected = selected]
                          ELSE fm.m_files[k]]
             count == CountWhere(files, LAMBDA e : e.isSelected)
             fm1 == EmitDataChanged([fm EXCEPT !.m_files = files],
                                    RowsWhere(Len(fm.m_files), touched))
         IN  IF count # fm.m_selectedFileCount
             THEN Emit([fm1 EXCEPT !.m_selectedFileCount = count],
                       "selectedFileCountChanged")
             ELSE fm1

\* FileModel::selectRange
selectRange(fm, firstIndex, lastIndex, selected) ==
    IF \/ firstIndex >= Len(fm.m_files) \/ firstIndex < 0
       \/ lastIndex >= Len(fm.m_files) \/ lastIndex < 0
    THEN fm
    ELSE LET first == IF firstIndex > lastIndex THEN lastIndex ELSE firstIndex
             last == IF firstIndex > lastIndex THEN firstIndex ELSE lastIndex
             touched(r) == /\ r >= first
                           /\ r <= last
                           /\ fm.m_files[r + 1].isMatched
                           /\ fm.m_files[r + 1].isSelected # selected
             files == [k \in 1..Len(fm.m_files) |->
                          IF touched(k - 1)
                          THEN [fm.m_files[k] EXCEPT !.isSelected = selected]
                          ELSE fm.m_files[k]]
             count == CountWhere(files, LAMBDA e : e.isSelected)
             fm1 == EmitDataChanged([fm EXCEPT !.m_files = files],
                                    RowsWhere(Len(fm.m_files), touched))
         IN  IF count # fm.m_selectedFileCount
             THEN Emit([fm1 EXCEPT !.m_selectedFileCount = count],
                       "selectedFileCountChanged")
             ELSE fm1

\* the rows Test holds for become doomed and unselected
Doom(fm, Test(_)) ==
    EmitDataChanged(
        [fm EXCEPT !.m_files = [k \in 1..Len(fm.m_files) |->
                                   IF Test(fm.m_files[k])
                                   THEN [fm.m_files[k] EXCEPT !.isDoomed = TRUE,
                                                              !.isSelected = FALSE]
                                   ELSE fm.m_files[k]]],
        RowsWhere(Len(fm.m_files), LAMBDA r : Test(fm.m_files[r + 1])))

\* FileModel::markSelectedAsDoomed
markSelectedAsDoomed(fm) == Doom(fm, LAMBDA e : e.isSelected)

\* FileModel::markAsDoomed
markAsDoomed(fm, absoluteFilePaths) ==
    Doom(fm, LAMBDA e : absoluteFilePath(fm.m_dir, e.fileName) \in absoluteFilePaths)

\* refresh without the test of m_active
refreshEager(fm, qdir) ==
    [refreshEntries(fm, qdir) EXCEPT !.m_dirty = FALSE]

\* FileModel::refresh
refresh(fm, qdir) ==
    IF ~fm.m_active THEN [fm EXCEPT !.m_dirty = TRUE]
    ELSE [refreshEntries(fm, qdir) EXCEPT !.m_dirty = FALSE]

\* FileModel::refreshFull
refreshFull(fm, localPath, qdir) ==
    IF localPath # <<>> /\ localPath # fm.m_dir THEN fm
    ELSE IF ~fm.m_active THEN [fm EXCEPT !.m_dirty = TRUE]
    ELSE [readDirectory(fm, qdir) EXCEPT !.m_dirty = FALSE]

-----------------------------------------------------------------------------
(* FileModel: the calls a view and the watcher make *)

\* the object as a call of the method op finds it
Calling(op) == [fileModel EXCEPT !.lastOp = op, !.signals = <<>>, !.reads = <<>>]

\* the call leaves the object as after (its signals and reads are those of the
\* call and are not kept); calls that would take the selected count or the
\* filter string beyond the bounds are not followed
Returns(after) ==
    /\ after.m_selectedFileCount \in (0 - MaxCount)..MaxCount
    /\ Len(after.m_filterString) <= MaxFilterLen
    /\ fileModel' = [after EXCEPT !.signals = <<>>, !.reads = <<>>]
    /\ UNCHANGED <<workerVars, searchVars, policyVars>>

CallSetDir ==
    \E dir \in ModelDirs :
      \E qdir \in QDirs(dir) :
        \E after \in {setDir(Calling("setDir"), dir, qdir)} :
            Returns(after)
CallSetActive ==
    \E active \in BOOLEAN, qdir \in QDirs(fileModel.m_dir) :
        \E after \in {setActive(Calling("setActive"), active, qdir)} :
            Returns(after)
CallSetFilterString ==
    \E newFilter \in FilterStrings :
        \E after \in {setFilterString(Calling("setFilterString"), newFilter)} :
            Returns(after)
CallToggleSelectedFile ==
    \E fileIndex \in -1..MaxLen :
        \E after \in {toggleSelectedFile(Calling("toggleSelectedFile"), fileIndex)} :
            Returns(after)
CallClearSelectedFiles ==
    \E after \in {clearSelectedFiles(Calling("clearSelectedFiles"))} :
        Returns(after)
CallSelectAllFiles ==
    \E after \in {selectAllFiles(Calling("selectAllFiles"))} :
        Returns(after)
CallSelectRange ==
    \E firstIndex \in 0..MaxLen, lastIndex \in 0..MaxLen, selected \in BOOLEAN :
        \E after \in {selectRange(Calling("selectRange"), firstIndex, lastIndex, selected)} :
            Returns(after)
CallMarkSelectedAsDoomed ==
    \E after \in {markSelectedAsDoomed(Calling("markSelectedAsDoomed"))} :
        Returns(after)
CallMarkAsDoomed ==
    \E absoluteFilePaths \in DoomedPaths :
        \E after \in {markAsDoomed(Calling("markAsDoomed"), absoluteFilePaths)} :
            Returns(after)
\* refresh(), called by a view or by the watcher's directoryChanged/fileChanged
CallRefresh ==
    \E qdir \in QDirs(fileModel.m_dir) :
        \E after \in {refresh(Calling("refresh"), qdir)} :
            Returns(after)
\* refreshFull(localPath), called on viewSettingsChanged(localPath)
CallRefreshFull ==
    \E localPath \in {<<>>, D_x}, qdir \in QDirs(fileModel.m_dir) :
        \E after \in {refreshFull(Calling("refreshFull"), localPath, qdir)} :
            Returns(after)

-----------------------------------------------------------------------------
(* The listing policy: the settings and FileModelWorker::applySettings,     *)
(* FileModel::applySettings                                                 *)

\* a key that is not stored
Unset == "unset"
GlobalKeys == {"View/UseLocalSettings", "View/HiddenFilesShown",
               "View/ShowDirectoriesFirst", "View/SortRole", "View/SortOrder",
               "View/SortCaseSensitively"}
LocalKeys == {"Settings/HiddenFilesShown", "Sailfish/ShowDirectoriesFirst",
              "Dolphin/SortRole", "Dolphin/SortOrder",
              "Sailfish/SortCaseSensitively"}
SortRoles == {"name", "size", "modificationtime", "type", "date"}
\* the values a key is written with
ValuesOf(key) ==
    IF key \in {"View/SortRole", "Dolphin/SortRole"} THEN SortRoles
    ELSE IF key = "View/SortOrder" THEN {"default", "reversed"}
    ELSE IF key = "Dolphin/SortOrder" THEN {"0", "1"}
    ELSE {"true", "false"}

\* Settings::readVariant(key, defaultValue) and, with store the .directory
\* file at localPath, Settings::readVariant(key, defaultValue, localPath)
readVariant(store, key, defaultValue) ==
    IF store[key] = Unset THEN defaultValue ELSE store[key]
\* QVariant::toBool
toBool(v) == v = "true"

\* the sort key of a sort role
SortBy(sortSetting) ==
    IF sortSetting = "name" THEN "Name"
    ELSE IF sortSetting = "size" THEN "Size"
    ELSE IF sortSetting = "modificationtime" THEN "Time"
    ELSE IF sortSetting = "type" THEN "Type"
    ELSE "Name"

\* FileModelWorker::applySettings and FileModel::applySettings, which read the
\* same keys in the same way: the flags of setFilter() and setSorting()
applySettings(settings) ==
    LET global == settings.global
        local == settings.local
        useLocal == toBool(readVariant(global, "View/UseLocalSettings", "true"))
        hidden0 == readVariant(global, "View/HiddenFilesShown", "false")
        hidden == IF useLocal
                  THEN readVariant(local, "Settings/HiddenFilesShown", hidden0)
                  ELSE hidden0
        dirsFirst0 == readVariant(global, "View/ShowDirectoriesFirst", "true")
        dirsFirst == IF useLocal
                     THEN readVariant(local, "Sailfish/ShowDirectoriesFirst", dirsFirst0)
                     ELSE dirsFirst0
        sortSetting0 == readVariant(global, "View/SortRole", "name")
        sortSetting == IF useLocal
                       THEN readVariant(local, "Dolphin/SortRole", sortSetting0)
                       ELSE sortSetting0
        orderDefault0 == readVariant(global, "View/SortOrder", "default") = "default"
        orderDefault == IF useLocal
                        THEN readVariant(local, "Dolphin/SortOrder", "0") = "0"
                        ELSE orderDefault0
        caseSensitive0 == readVariant(global, "View/SortCaseSensitively", "false")
        caseSensitive == IF useLocal
                         THEN readVariant(local, "Sailfish/SortCaseSensitively",
                                          caseSensitive0)
                         ELSE caseSensitive0
    IN  [hidden |-> toBool(hidden), sortBy |-> SortBy(sortSetting),
         dirsFirst |-> toBool(dirsFirst), reversed |-> ~orderDefault,
         ignoreCase |-> ~toBool(caseSensitive)]

InitPolicy ==
    /\ m_settings = [global |-> [k \in GlobalKeys |-> Unset],
                     local |-> [k \in LocalKeys |-> Unset]]
    /\ dirFlags = [by |-> "none", hidden |-> FALSE, sortBy |-> "Name",
                   dirsFirst |-> FALSE, reversed |-> FALSE, ignoreCase |-> TRUE]
    /\ writes = 0

\* a global setting is written
WriteGlobal ==
    /\ writes < MaxWrites
    /\ \E key \in GlobalKeys : \E value \in ValuesOf(key) :
           m_settings' = [m_settings EXCEPT !.global[key] = value]
    /\ writes' = writes + 1
    /\ UNCHANGED <<dirFlags, bookmarkSettings, workerVars, searchVars, fileModel>>

\* a setting of the directory's .directory file is written
WriteLocal ==
    /\ writes < MaxWrites
    /\ \E key \in LocalKeys : \E value \in ValuesOf(key) :
           m_settings' = [m_settings EXCEPT !.local[key] = value]
    /\ writes' = writes + 1
    /\ UNCHANGED <<dirFlags, bookmarkSettings, workerVars, searchVars, fileModel>>

\* FileModelWorker::applySettings sets the filter and sorting of m_cachedDir
WorkerApplySettings ==
    /\ \E flags \in {applySettings(m_settings)} :
           dirFlags' = [by |-> "FileModelWorker", hidden |-> flags.hidden,
                        sortBy |-> flags.sortBy, dirsFirst |-> flags.dirsFirst,
                        reversed |-> flags.reversed, ignoreCase |-> flags.ignoreCase]
    /\ UNCHANGED <<m_settings, writes, bookmarkSettings, workerVars, searchVars, fileModel>>

\* FileModel::applySettings sets the filter and sorting of the QDir it is given
ModelApplySettings ==
    /\ \E flags \in {applySettings(m_settings)} :
           dirFlags' = [by |-> "FileModel", hidden |-> flags.hidden,
                        sortBy |-> flags.sortBy, dirsFirst |-> flags.dirsFirst,
                        reversed |-> flags.reversed, ignoreCase |-> flags.ignoreCase]
    /\ UNCHANGED <<m_settings, writes, bookmarkSettings, workerVars, searchVars, fileModel>>

-----------------------------------------------------------------------------
(* Bookmarks (src/unnamed/part_003): the functions of the bookmarks script,  *)
(* each a function of the Bookmarks group of the settings before the call    *)

\* the paths a caller bookmarks, in the order settings.keys() lists them
BookmarkPaths == <<"/a", "/b", "/c">>
\* the JavaScript values undefined and null as elements of an array
Undefined == "undefined"
Null == "null"

\* the text "" that settings.read returns for a key that is not stored
NoText == [valid |-> FALSE, array |-> <<>>]
\* JSON.stringify of an array: an element undefined becomes null
JSONstringify(array) ==
    [valid |-> TRUE,
     array |-> [k \in 1..Len(array) |->
                   IF array[k] = Undefined THEN Null ELSE array[k]]]

\* settings.keys("Bookmarks") without 'Entries': the paths that have a name
SettingsKeys(names) == SelectSeq(BookmarkPaths, LAMBDA path : path \in names)

\* self.indexOf(value)
IndexOf(array, value) ==
    IF \E k \in 1..Len(array) : array[k] = value
    THEN (CHOOSE k \in 1..Len(array) :
              array[k] = value /\ \A j \in 1..(k - 1) : array[j] # value) - 1
    ELSE 0 - 1

\* the elements of array from position k on that filter(...) keeps: those at
\* the index of their first occurrence
RECURSIVE FirstOccurrences(_, _)
FirstOccurrences(array, k) ==
    IF k > Len(array) THEN <<>>
    ELSE (IF IndexOf(array, array[k]) = k - 1 THEN <<array[k]>> ELSE <<>>)
         \o FirstOccurrences(array, k + 1)

\* getBookmarks returning the stored array as it is
getBookmarksAsStored(st) ==
    IF st.entries.valid
    THEN [store |-> st, result |-> st.entries.array]
    ELSE [store |-> [st EXCEPT !.entries = JSONstringify(SettingsKeys(st.names))],
          result |-> SettingsKeys(st.names)]

\* getBookmarks: the settings it leaves and the array it returns; JSON.parse
\* throws on the text ""
getBookmarks(st) ==
    IF st.entries.valid
    THEN [store |-> st, result |-> FirstOccurrences(st.entries.array, 1)]
    ELSE [store |-> [st EXCEPT !.entries = JSONstringify(SettingsKeys(st.names))],
          result |-> SettingsKeys(st.names)]

\* addBookmark(path), the name left to its default
addBookmark(st, path) ==
    IF path = "" THEN st
    ELSE LET got == getBookmarks([st EXCEPT !.names = @ \cup {path}])
         IN  [got.store EXCEPT !.entries = JSONstringify(Append(got.result, path))]

\* removeBookmark(path)
removeBookmark(st, path) ==
    IF path = "" THEN st
    ELSE LET got == getBookmarks(st)
             filteredBookmarks == SelectSeq(got.result, LAMBDA e : e # path)
         IN  [got.store EXCEPT !.entries = JSONstringify(filteredBookmarks),
                               !.names = @ \ {path}]

\* array.splice(start, 1): the array left and the element taken out,
\* undefined when there is none at start
SpliceOut(array, start) ==
    IF start < Len(array)
    THEN [left |-> RemoveAt(array, start), taken |-> array[start + 1]]
    ELSE [left |-> array, taken |-> Undefined]

\* moveBookmark(path): oldIndex stays undefined when path is not in the
\* array; splice takes undefined and NaN (undefined - 1) as index 0
moveBookmark(st, path) ==
    IF path = "" THEN st
    ELSE LET got == getBookmarks(st)
             found == IndexOf(got.result, path) >= 0
             oldIndex == IF found THEN IndexOf(got.result, path) ELSE 0
             newIndex == IF ~found THEN 0
                         ELSE IF oldIndex = 0 THEN Len(got.result) - 1
                         ELSE oldIndex - 1
             out == SpliceOut(got.result, oldIndex)
         IN  [got.store EXCEPT
                 !.entries = JSONstringify(InsertAt(out.left, newIndex, out.taken))]

InitBookmarks ==
    bookmarkSettings = [entries |-> NoText, names |-> {}, lastOp |-> "none",
                        path |-> ""]

\* what the other components leave alone
bookmarkFrame == <<workerVars, searchVars, fileModel, m_settings, dirFlags, writes>>

\* the paths a call is made with: the bookmarked ones and the empty path
BookmarkArgs == {BookmarkPaths[k] : k \in 1..Len(BookmarkPaths)} \cup {""}

CallAddBookmark ==
    /\ \E path \in BookmarkArgs :
           bookmarkSettings' = [addBookmark(bookmarkSettings, path) EXCEPT
                                   !.lastOp = "addBookmark", !.path = path]
    /\ UNCHANGED bookmarkFrame
CallRemoveBookmark ==
    /\ \E path \in BookmarkArgs :
           bookmarkSettings' = [removeBookmark(bookmarkSettings, path) EXCEPT
                                   !.lastOp = "removeBookmark", !.path = path]
    /\ UNCHANGED bookmarkFrame
CallMoveBookmark ==
    /\ \E path \in BookmarkArgs :
           bookmarkSettings' = [moveBookmark(bookmarkSettings, path) EXCEPT
                                   !.lastOp = "moveBookmark", !.path = path]
    /\ UNCHANGED bookmarkFrame
CallGetBookmarks ==
    /\ bookmarkSettings' = [getBookmarks(bookmarkSettings).store EXCEPT
                               !.lastOp = "getBookmarks", !.path = ""]
    /\ UNCHANGED bookmarkFrame
\* the ordering field is lost while the names stay (the settings folder was
\* moved while the application ran)
EntriesLost ==
    /\ bookmarkSettings' = [bookmarkSettings EXCEPT !.entries = NoText,
                                                    !.lastOp = "lost", !.path = ""]
    /\ UNCHANGED bookmarkFrame

-----------------------------------------------------------------------------
(* Specifications *)

Init == InitWorker /\ InitSearch /\ InitModel /\ InitPolicy /\ InitBookmarks

\* Reads that run to their end: the caller starts a read when none runs and
\* never cancels. The first read is given any listing, later ones a sample.
NextDiff ==
    \/ ~running /\ startReadFull
    \/ ~running /\ startReadChanged(IF tasks = 0 THEN OldListings ELSE SampleOld)
    \/ Thread

SpecDiff == Init /\ [][NextDiff]_vars

\* The worker under any caller: starts at any time, cancels at any time.
NextWorker ==
    \/ startReadFull
    \/ startReadChanged(SampleOld)
    \/ cancel
    \/ Thread

SpecWorker == Init /\ [][NextWorker]_vars

\* The worker with a caller that starts a read only when none runs and
\* cancels at any time.
NextWorkerRuns ==
    \/ ~running /\ startReadFull
    \/ ~running /\ startReadChanged(SampleOld)
    \/ cancel
    \/ Thread

\* The worker thread is a thread of its own: it goes on while it has a step
\* to take.
SpecWorkerFair == Init /\ [][NextWorkerRuns]_vars /\ WF_vars(Thread)

\* The search under any caller.
NextSearch ==
    \/ StartSearch
    \/ searchCancel
    \/ SearchThread

SpecSearch == Init /\ [][NextSearch]_vars

\* The search with a caller that starts a search only when none runs (a start
\* while one runs changes nothing but its own answer) and cancels at any time.
NextSearchRuns ==
    \/ ~s_running /\ StartSearch
    \/ searchCancel
    \/ SearchThread

\* The search thread is a thread of its own: it goes on while it has a step
\* to take.
SpecSearchFair == Init /\ [][NextSearchRuns]_vars /\ WF_vars(SearchThread)

\* The model under any sequence of calls.
NextModel ==
    \/ CallSetDir
    \/ CallSetActive
    \/ CallSetFilterString
    \/ CallToggleSelectedFile
    \/ CallClearSelectedFiles
    \/ CallSelectAllFiles
    \/ CallSelectRange
    \/ CallMarkSelectedAsDoomed
    \/ CallMarkAsDoomed
    \/ CallRefresh
    \/ CallRefreshFull

SpecModel == Init /\ [][NextModel]_vars

\* The settings under any writes, applied at any time by a worker or a model.
NextPolicy ==
    \/ WriteGlobal
    \/ WriteLocal
    \/ WorkerApplySettings
    \/ ModelApplySettings

SpecPolicy == Init /\ [][NextPolicy]_vars

\* The bookmarks under any sequence of calls.
NextBookmarks ==
    \/ CallAddBookmark
    \/ CallRemoveBookmark
    \/ CallMoveBookmark
    \/ CallGetBookmarks
    \/ EntriesLost

SpecBookmarks == Init /\ [][NextBookmarks]_vars

-----------------------------------------------------------------------------
(* What a consumer of the notifications sees *)

ApplyEdit(s, e) ==
    IF e.kind = "entryRemoved" THEN RemoveAt(s, e.index)
    ELSE InsertAt(s, e.index, e.entry)

RECURSIVE ApplyEdits(_, _)
ApplyEdits(s, es) ==
    IF es = <<>> THEN s ELSE ApplyEdits(ApplyEdit(s, Head(es)), Tail(es))

Removals == {k \in 1..Len(edits) : edits[k].kind = "entryRemoved"}
Additions == {k \in 1..Len(edits) : edits[k].kind = "entryAdded"}

\* the task emitted done
DoneEmitted == \E k \in 1..Len(terminal) : terminal[k].sig = "done"
\* a diff-mode read ran to its end: done is the one terminal notification
CompletedDiff ==
    /\ Len(terminal) = 1
    /\ terminal[1].sig = "done"
    /\ terminal[1].mode = "DiffMode"
\* the listing done carries
DoneEntries == terminal[1].entries

\* the entries of s whose identity is in S, in the order of s
Common(s, S) == SelectSeq(s, LAMBDA e : IdOf(e) \in S)
\* the entries two listings share are in the same relative order in both
SameRelativeOrder(old, new) ==
    IdSeq(Common(old, IdSet(new))) = IdSeq(Common(new, IdSet(old)))

-----------------------------------------------------------------------------
(* Claims about the diff of a completed read, under SpecDiff *)

\* C1: the edits of a completed diff-mode read, applied to the old listing in
\* emission order at the stated indices, give a list whose set of entries
\* (by identity attributes) is the set of entries of the fresh listing.
C1_DiffMembership ==
    CompletedDiff => IdSet(ApplyEdits(argOld, edits)) = IdSet(lastRead)

\* C1 witness: a completed diff with a removal and an addition, whose patched
\* list has the fresh listing's entries in another order
C1_Witness ==
    /\ CompletedDiff
    /\ Removals # {}
    /\ Additions # {}
    /\ Len(lastRead) = MaxLen
    /\ IdSeq(ApplyEdits(argOld, edits)) # IdSeq(lastRead)

\* the scenario of C2: old [a.txt, b.txt], fresh [b.txt, c.txt]
C2_Scenario ==
    CompletedDiff /\ argOld = <<a0, b0>> /\ lastRead = <<b0, c0>>
        => /\ edits = <<[kind |-> "entryRemoved", index |-> 0, entry |-> a0],
                        [kind |-> "entryAdded", index |-> 1, entry |-> c0]>>
           /\ DoneEntries = <<b0, c0>>

\* C2 as stated: done carries the fresh listing as a sequence, for every old
\* listing and every fresh listing; and the scenario.
C2_Original ==
    /\ CompletedDiff => IdSeq(DoneEntries) = IdSeq(lastRead)
    /\ C2_Scenario

\* C2 amended: done carries the fresh listing as a sequence (entry for entry
\* on the identity attributes) whenever the entries the old and the fresh
\* listing share are in the same relative order in both; and the scenario.
C2_DoneSequence ==
    /\ CompletedDiff /\ SameRelativeOrder(argOld, lastRead)
           => IdSeq(DoneEntries) = IdSeq(lastRead)
    /\ C2_Scenario

\* C2 witness: the scenario has run to done
C2_Witness ==
    CompletedDiff /\ argOld = <<a0, b0>> /\ lastRead = <<b0, c0>>

\* C3: a fresh listing identity-equal to oldEntries entry for entry gives no
\* entryRemoved, no entryAdded, and done carries oldEntries unchanged.
C3_NoEdits ==
    CompletedDiff /\ IdSeq(lastRead) = IdSeq(argOld)
        => edits = <<>> /\ DoneEntries = argOld

\* C3 witness: such a read where the old listing differs from the fresh one in
\* a view flag
C3_Witness ==
    /\ CompletedDiff
    /\ IdSeq(lastRead) = IdSeq(argOld)
    /\ lastRead # argOld
    /\ Len(argOld) = MaxLen

\* the fresh listing is old with the entry at index k removed
OneRemoved(old, new, k) ==
    /\ k \in 0..(Len(old) - 1)
    /\ IdSeq(new) = IdSeq(RemoveAt(old, k))

\* C4: when the fresh listing is oldEntries with exactly one entry removed,
\* the read emits exactly one entryRemoved, carrying that entry and its index
\* in oldEntries, and no entryAdded.
C4_OneRemove ==
    \A k \in 0..(MaxLen - 1) :
        CompletedDiff /\ OneRemoved(argOld, lastRead, k)
            => edits = <<[kind |-> "entryRemoved", index |-> k,
                          entry |-> argOld[k + 1]]>>

\* C4 witness: the middle entry of three was removed
C4_Witness ==
    CompletedDiff /\ Len(argOld) = 3 /\ OneRemoved(argOld, lastRead, 1)

-----------------------------------------------------------------------------
(* Claims about starting, cancelling and failing, under SpecWorker *)

\* C5: while a task runs no start is accepted (no second task, nothing
\* queued), and the start that is answered with alreadyRunning leaves the
\* task's mode, directory, old entries, result list, cancellation flag and
\* position unchanged.
C5_AlreadyRunning ==
    [][running =>
          /\ tasks' = tasks
          /\ running' => m_mode' = m_mode /\ m_dir' = m_dir
          /\ lastCall' # lastCall =>
                /\ lastCall' = "alreadyRunning"
                /\ UNCHANGED <<m_mode, m_dir, m_hasSettings, m_oldEntries,
                               m_finalEntries, m_cancelled, m_cachedDir,
                               running, pc, fileList, newFiles, i, haveRemoved,
                               edits, terminal>>]_vars

\* C5 witness: a start was rejected in the middle of the insertion pass
C5_Witness ==
    /\ running
    /\ lastCall = "alreadyRunning"
    /\ pc = "insert"
    /\ edits # <<>>

\* C6 as stated: once cancel() was called while the read ran, done is never
\* emitted, wherever the read was.
C6_Original == cancelReq => ~DoneEmitted

\* C6 amended: once a cancellation check has run after the cancel(), the task
\* has returned without done; done is emitted only when no check ran after
\* the cancel() (the cancel arrived after the task's last check).
C6_NoDoneAfterCheck ==
    /\ DoneEmitted => ~checkedAfterCancel
    /\ checkedAfterCancel => ~running

\* C6 witness: a diff-mode read cancelled after its first edit
C6_Witness ==
    /\ cancelReq
    /\ checkedAfterCancel
    /\ ~running
    /\ m_mode = "DiffMode"
    /\ Len(edits) = 1
    /\ terminal = <<>>

Verified == tasks > 0 /\ pc # "verify"

\* C8: an empty path gives the internal error, a missing directory "Folder
\* does not exist", an unreadable one "No permission to read the folder", in
\* that order; the error is the only notification of the task.
C8_Errors ==
    /\ Verified /\ m_dir = ""
           => terminal = <<[sig |-> "error", message |-> ErrEmptyDir]>>
    /\ Verified /\ m_dir # "" /\ ~dirStat[1]
           => terminal = <<[sig |-> "error", message |-> ErrNoFolder]>>
    /\ Verified /\ m_dir # "" /\ dirStat[1] /\ ~dirStat[2]
           => terminal = <<[sig |-> "error", message |-> ErrNoPermission]>>
    /\ \A k \in 1..Len(terminal) :
           terminal[k].sig = "error"
               => /\ Len(terminal) = 1
                  /\ edits = <<>>
                  /\ ~running
                  /\ m_dir = "" \/ ~dirStat[1] \/ ~dirStat[2]

\* C8 witness: a diff-mode read of a missing directory has failed
C8_Witness ==
    /\ ~running
    /\ m_mode = "DiffMode"
    /\ m_oldEntries # <<>>
    /\ dirStat = <<FALSE, FALSE>>
    /\ terminal = <<[sig |-> "error", message |-> ErrNoFolder]>>

-----------------------------------------------------------------------------
(* Claims about the search, under SpecSearch and SpecSearchFair *)

\* C9: startSearch while a search runs answers "Search already in progress";
\* otherwise, with an empty directory or an empty search term, "Bad search
\* parameters"; in both cases no search is started and the stored directory,
\* search term, current directory and cancellation flag are unchanged.
C9_StartRejected ==
    [][/\ s_running => searches' = searches
       /\ s_lastStart' # s_lastStart =>
            /\ s_running => s_lastStart'.answer = ErrSearchRunning
            /\ /\ ~s_running
               /\ s_lastStart'.directory = <<>> \/ s_lastStart'.searchTerm = <<>>
               => s_lastStart'.answer = ErrBadSearch
            /\ s_lastStart'.answer \in {ErrSearchRunning, ErrBadSearch} =>
                 UNCHANGED <<s_directory, s_searchTerm, s_currentDirectory,
                             s_cancelled, s_running, s_pc, s_stack, s_events,
                             searches>>
            /\ s_lastStart'.answer = "accepted" =>
                 /\ ~s_running
                 /\ s_lastStart'.directory # <<>>
                 /\ s_lastStart'.searchTerm # <<>>]_vars

\* C9 witness: a start with an empty directory was rejected as already
\* running while the search was inside a subdirectory
C9_Witness ==
    /\ s_running
    /\ Len(s_stack) >= 2
    /\ s_lastStart.directory = <<>>
    /\ s_lastStart.answer = ErrSearchRunning

\* the progressChanged notifications that carry a directory
Visits ==
    {k \in 1..Len(s_events) :
        s_events[k].sig = "progressChanged" /\ s_events[k].text # <<>>}
\* the directory a visit is in, every link followed
VisitedDir(k) ==
    CHOOSE q \in {Resolve(c) : c \in {Components(s_events[k].text)}} : TRUE

\* no directory is visited twice, and none through a link
C10_VisitOnce ==
    /\ \A j, k \in Visits : VisitedDir(j) = VisitedDir(k) => j = k
    /\ \A k \in Visits : VisitedDir(k) = Components(s_events[k].text)

\* run() has emitted done and the thread has ended
SearchEnded ==
    /\ ~s_running
    /\ s_events # <<>>
    /\ s_events[Len(s_events)].sig = "done"

\* C10: on the tree with symbolic links to an ancestor the search terminates
\* (done is emitted), and progressChanged is emitted at most once per real
\* directory, never for a path through a link.
C10_SymlinkSafe == []C10_VisitOnce /\ (s_running ~> SearchEnded)

\* C10 witness: an uncancelled search of /r has ended after visiting /r,
\* /r/sb and /r/sb/B, past both links
C10_Witness ==
    /\ SearchEnded
    /\ ~s_cancelReq
    /\ s_directory = P_r
    /\ Cardinality(Visits) = 3

-----------------------------------------------------------------------------
(* What a listener of the search sees *)

EvProgress(text) == [sig |-> "progressChanged", text |-> text]
EvMatch(text) == [sig |-> "matchFound", text |-> text]
EvDone == [sig |-> "done", text |-> <<>>]

\* the positions of the notifications with the signal sig
EventsOf(sig) == {k \in 1..Len(s_events) : s_events[k].sig = sig}
\* the positions of the notifications emitted after the cancel()
AfterCancel == (s_eventsAtCancel + 1)..Len(s_events)
\* cancel() was called while the search ran, after its first matchFound
MatchedBeforeCancel ==
    /\ s_cancelReq
    /\ \E k \in 1..s_eventsAtCancel : s_events[k].sig = "matchFound"

\* the name matches the (lower-cased) term
NameMatches(filename, term) == indexOfFound(toLower(filename), term)

-----------------------------------------------------------------------------
(* Claims about cancelling and ending a search, under SpecSearchFair *)

\* C11 as stated: after a cancel() that follows the first matchFound, no
\* matchFound and no progressChanged is emitted.
C11_Original ==
    MatchedBeforeCancel =>
        \A k \in AfterCancel : s_events[k].sig \notin {"matchFound", "progressChanged"}

\* at most one matchFound, one progressChanged carrying a directory and the
\* one progressChanged("") follow the cancel()
C11_Bounded ==
    MatchedBeforeCancel =>
        /\ Cardinality(AfterCancel \cap EventsOf("matchFound")) <= 1
        /\ Cardinality(AfterCancel \cap Visits) <= 1
        /\ Cardinality(AfterCancel \cap (EventsOf("progressChanged") \ Visits)) <= 1

\* C11 amended: after a cancel() that follows the first matchFound, at most
\* one further matchFound and at most one further progressChanged carrying a
\* directory are emitted (the entry in hand when the flag was set), then the
\* terminating progressChanged("") and done are emitted.
C11_CancelBounded == []C11_Bounded /\ (MatchedBeforeCancel ~> SearchEnded)

\* C11 witness: a cancelled search has ended, one matchFound and one
\* progressChanged of a directory having followed the cancel()
C11_Witness ==
    /\ MatchedBeforeCancel
    /\ SearchEnded
    /\ Cardinality(AfterCancel \cap EventsOf("matchFound")) = 1
    /\ Cardinality(AfterCancel \cap Visits) = 1

\* the notifications of a run are well ended so far
C12_Ending ==
    /\ Cardinality(EventsOf("done")) <= 1
    /\ Cardinality(EventsOf("progressChanged") \ Visits) <= 1
    /\ Cardinality(EventsOf("errorOccurred")) <= 1
    /\ s_cancelReq => EventsOf("errorOccurred") = {}
    /\ \A k \in EventsOf("done") :
           k = Len(s_events) /\ k >= 2 /\ s_events[k - 1] = EvProgress(<<>>)
    /\ \A k \in EventsOf("progressChanged") \ Visits : k >= Len(s_events) - 1
    /\ searches > 0 /\ ~s_running => SearchEnded

\* C12: every accepted run ends with progressChanged("") then done, each once
\* and after every other notification of the run; a cancelled run emits no
\* errorOccurred and any run at most one.
C12_RunEnds == []C12_Ending /\ (s_running ~> SearchEnded)

\* C12 witness: a cancelled run has ended after emitting a match
C12_Witness ==
    /\ SearchEnded
    /\ s_cancelReq
    /\ EventsOf("matchFound") # {}
    /\ s_events[Len(s_events) - 1] = EvProgress(<<>>)

-----------------------------------------------------------------------------
(* Claims about what a search visits and matches, under SpecSearch *)

\* the matchFound notifications for the names of a directory that match
RECURSIVE MatchesOf(_, _, _)
MatchesOf(directory, names, term) ==
    IF names = <<>> THEN <<>>
    ELSE (IF NameMatches(Head(names), term)
          THEN <<EvMatch(absoluteFilePath(directory, Head(names)))>>
          ELSE <<>>) \o MatchesOf(directory, Tail(names), term)

\* a path the search does not enter
NotEntered(path) ==
    \/ startsWith(path, ProcPrefix)
    \/ startsWith(path, SysBlockPrefix)
    \/ isSymLink(path)
    \/ ~dirExists(path)

\* the notifications of a depth-first visit of directory: progressChanged,
\* the matching files, then each subdirectory in listing order, its own match
\* before its visit
RECURSIVE ExpectedVisit(_, _)
RECURSIVE ExpectedDirs(_, _, _)
ExpectedVisit(directory, term) ==
    IF NotEntered(directory) THEN <<>>
    ELSE <<EvProgress(directory)>>
         \o MatchesOf(directory, entryListFiles(directory), term)
         \o ExpectedDirs(directory, entryListDirs(directory), term)
ExpectedDirs(directory, names, term) ==
    IF names = <<>> THEN <<>>
    ELSE MatchesOf(directory, <<Head(names)>>, term)
         \o ExpectedVisit(absoluteFilePath(directory, Head(names)), term)
         \o ExpectedDirs(directory, Tail(names), term)

\* all the notifications of an uncancelled run
ExpectedRun ==
    ExpectedVisit(s_directory, toLower(s_searchTerm)) \o <<EvProgress(<<>>), EvDone>>

IsPrefix(s, t) == Len(s) <= Len(t) /\ SubSeq(t, 1, Len(s)) = s

\* C13: an uncancelled search emits, in this order, for each directory visited
\* depth-first: progressChanged(directory), matchFound for each matching file,
\* then for each subdirectory matchFound if its name matches and after it the
\* visit of the subdirectory; a match is emitted when it is found: once the
\* loop over the files has passed a matching name its matchFound is out.
C13_DepthFirst ==
    /\ searches > 0 /\ ~s_cancelReq =>
          /\ IsPrefix(s_events, ExpectedRun)
          /\ ~s_running => s_events = ExpectedRun
    /\ s_pc = "search" /\ ~s_cancelReq /\ Top.at \in {"files", "dirs"} =>
          \A j \in 1..Top.idx :
              NameMatches(Top.names[j], Top.searchTerm) =>
                  \E k \in EventsOf("matchFound") :
                      s_events[k].text = absoluteFilePath(Top.directory, Top.names[j])

\* C13 witness: the uncancelled search of / for "AB" is in /r/sb/B, with the
\* matches of Ab and ab behind it
C13_Witness ==
    /\ s_running
    /\ ~s_cancelReq
    /\ s_directory = Slash
    /\ s_searchTerm = <<"A", "B">>
    /\ s_currentDirectory = P_sb \o Slash \o N_B
    /\ Cardinality(EventsOf("matchFound")) = 2

\* the path is /proc or /sys/block or lies under one of them
UnderPseudoRoot(path) ==
    \/ path = ProcPrefix
    \/ startsWith(path, ProcPrefix \o Slash)
    \/ path = SysBlockPrefix
    \/ startsWith(path, SysBlockPrefix \o Slash)

\* C14: a directory the search reaches is left out on account of its path
\* exactly when the path is /proc or /sys/block or lies under one of them;
\* every other existing directory that is no symbolic link is visited
\* (progressChanged is emitted for it).
C14_ExcludedExactly ==
    [][s_pc = "search" /\ Top.at = "entry" /\ s_stack' # s_stack =>
         (s_events' = Append(s_events, EvProgress(Top.directory))
            <=> /\ ~UnderPseudoRoot(Top.directory)
                /\ ~isSymLink(Top.directory)
                /\ dirExists(Top.directory))]_vars

\* the path and every directory above it is named without a symbolic link
NoLinkOnPath(path) == Resolve(Components(path)) = Components(path)

\* C15: a subdirectory entry that is a symbolic link is never entered (no
\* progressChanged for it, no notification for anything below it), and when
\* its name matches, matchFound is emitted for it all the same.
C15_LinkNotEntered ==
    /\ \A k \in Visits : NoLinkOnPath(s_events[k].text)
    /\ \A k \in EventsOf("matchFound") :
           Locate(Components(s_events[k].text)) = Components(s_events[k].text)
    /\ searches > 0 /\ ~s_cancelReq /\ ~s_running =>
           \A k \in Visits :
               LET names == entryListDirs(s_events[k].text)
               IN  \A j \in 1..Len(names) :
                       LET fullpath == absoluteFilePath(s_events[k].text, names[j])
                       IN  isSymLink(fullpath) /\ NameMatches(names[j], toLower(s_searchTerm))
                               => \E m \in EventsOf("matchFound") :
                                      m > k /\ s_events[m].text = fullpath

\* C15 witness: the search for "u" has reported the link /r/sb/up and ended
\* without entering it
C15_Witness ==
    /\ SearchEnded
    /\ ~s_cancelReq
    /\ \E m \in EventsOf("matchFound") :
           s_events[m].text = P_sb \o Slash \o N_up /\ isSymLink(s_events[m].text)

-----------------------------------------------------------------------------
(* Claims about the directory model, under SpecModel; a claim about a method *)
(* is stated of the call made in any state the model can reach              *)

\* the number of times refreshEntries ran in a call
DiffRefreshes(after) ==
    Cardinality({k \in 1..Len(after.reads) : after.reads[k] = "refreshEntries"})

\* C16: refresh() on an inactive model reads nothing, changes no entry, emits
\* nothing and only sets the dirty flag; the activation of the model performs
\* one diff refresh exactly when the dirty flag is set, and clears the flag;
\* refresh() on an active model performs the diff refresh at once and leaves
\* the flag clear.
C16_DeferredRefresh ==
    \A qdir \in QDirs(fileModel.m_dir) :
        /\ LET before == Calling("refresh")
               after == refresh(before, qdir)
           IN  IF fileModel.m_active
               THEN /\ DiffRefreshes(after) = 1
                    /\ ~after.m_dirty
                    /\ IdSet(after.m_files) = IdSet(qdir.entryList)
               ELSE after = [before EXCEPT !.m_dirty = TRUE]
        /\ LET after == setActive(Calling("setActive"), TRUE, qdir)
           IN  ~fileModel.m_active =>
                   /\ after.m_active
                   /\ ~after.m_dirty
                   /\ DiffRefreshes(after) = (IF fileModel.m_dirty THEN 1 ELSE 0)
                   /\ after.reads = <<>> => after.m_files = fileModel.m_files

\* C16 witness: refresh() has been called on the inactive model of a directory
\* with three entries and has left it dirty
C16_Witness ==
    /\ fileModel.lastOp = "refresh"
    /\ ~fileModel.m_active
    /\ fileModel.m_dirty
    /\ Len(fileModel.m_files) = 3

\* the glob p matches str from position k on: "*" any sequence, "?" any one
\* character, any other character itself, letters compared without case
RECURSIVE GlobHere(_, _, _, _)
GlobHere(p, n, str, k) ==
    IF n > Len(p) THEN TRUE
    ELSE IF p[n] = "*"
    THEN \E j \in k..(Len(str) + 1) : GlobHere(p, n + 1, str, j)
    ELSE /\ k <= Len(str)
         /\ p[n] = "?" \/ LowerChar(p[n]) = LowerChar(str[k])
         /\ GlobHere(p, n + 1, str, k + 1)
\* the name matches the glob: the glob is found in it
GlobFound(p, str) == \E k \in 1..(Len(str) + 1) : GlobHere(p, 1, str, k)

\* the filter strings the claim is tried on
GlobSamples == {<<>>, <<"a", "*">>, <<"A", "*">>, <<"c", "h">>, <<"?", "p", "p">>,
                <<"a", "*", "e">>, <<"b", ".">>}

\* after setFilterString(p) the matched flags are those of the glob and no
\* unmatched entry is selected
C17_Flags ==
    \A p \in GlobSamples :
        LET after == setFilterString(Calling("setFilterString"), p)
        IN  \A k \in 1..Len(after.m_files) :
                /\ after.m_files[k].isMatched = GlobFound(p, after.m_files[k].fileName)
                /\ ~after.m_files[k].isMatched => ~after.m_files[k].isSelected

\* C17: after setFilterString(p) every entry's matched flag is whether its
\* name matches the glob p without regard to case, every unmatched entry is
\* deselected, and the selected count has dropped by exactly the number of
\* selected entries that stopped matching; with apple, banana, cherry and
\* "a*", apple and banana are matched and cherry is not.
C17_FilterDeselects ==
    /\ C17_Flags
    /\ \A p \in GlobSamples :
        LET after == setFilterString(Calling("setFilterString"), p)
        IN  fileModel.m_selectedFileCount - after.m_selectedFileCount =
                Cardinality({k \in 1..Len(fileModel.m_files) :
                                /\ fileModel.m_files[k].isSelected
                                /\ ~GlobFound(p, fileModel.m_files[k].fileName)})
    /\ IdSeq(fileModel.m_files) = IdSeq(<<F_apple, F_banana, F_cherry>>) =>
        LET after == setFilterString(Calling("setFilterString"), <<"a", "*">>)
        IN  /\ after.m_files[1].isMatched
            /\ after.m_files[2].isMatched
            /\ ~after.m_files[3].isMatched

\* the entries selectRange(first, last, v) is to touch
InRange(k, first, last) ==
    /\ k - 1 >= (IF first < last THEN first ELSE last)
    /\ k - 1 <= (IF first < last THEN last ELSE first)

\* C18: for valid first and last, selectRange(first, last, v) sets the
\* selected flag to v on exactly the matched entries of the range and leaves
\* every other entry as it was; selectRange(last, first, v) gives the same;
\* the call repeated changes nothing and emits nothing.
C18_SelectRange ==
    \A first \in 0..(Len(fileModel.m_files) - 1),
       last \in 0..(Len(fileModel.m_files) - 1), v \in BOOLEAN :
        LET before == Calling("selectRange")
            after == selectRange(before, first, last, v)
            again == selectRange([after EXCEPT !.signals = <<>>], first, last, v)
        IN  /\ Len(after.m_files) = Len(before.m_files)
            /\ \A k \in 1..Len(before.m_files) :
                   after.m_files[k] =
                       IF InRange(k, first, last) /\ before.m_files[k].isMatched
                       THEN [before.m_files[k] EXCEPT !.isSelected = v]
                       ELSE before.m_files[k]
            /\ selectRange(before, last, first, v) = after
            /\ again = [after EXCEPT !.signals = <<>>]

\* C18 witness: selectRange has selected the second of three entries, the
\* first left unselected and the third, unmatched, left as it was
C18_Witness ==
    /\ fileModel.lastOp = "selectRange"
    /\ Len(fileModel.m_files) = 3
    /\ ~fileModel.m_files[1].isSelected
    /\ fileModel.m_files[2].isSelected
    /\ ~fileModel.m_files[3].isMatched
    /\ fileModel.m_selectedFileCount = 1

\* C19: after selectAll(), whatever came before, the selected entries are
\* exactly the matched entries and the published selected count is the number
\* of matched entries.
C19_SelectAll ==
    LET after == selectAllFiles(Calling("selectAllFiles"))
    IN  /\ \A k \in 1..Len(after.m_files) :
               after.m_files[k].isSelected = after.m_files[k].isMatched
        /\ after.m_selectedFileCount =
               CountWhere(after.m_files, LAMBDA e : e.isMatched)

\* C20: no entry is both doomed and selected.
C20_DoomedUnselected ==
    \A k \in 1..Len(fileModel.m_files) :
        ~(fileModel.m_files[k].isDoomed /\ fileModel.m_files[k].isSelected)


-----------------------------------------------------------------------------
(* Claims about the counts, the notifications and the error message of the  *)
(* directory model, under SpecModel                                         *)

\* the object after each call that can be made in the current state, with the
\* signals the call emitted
ModelCalls ==
    {setDir(Calling("setDir"), dir[1], dir[2]) :
        dir \in UNION {{<<d, q>> : q \in QDirs(d)} : d \in ModelDirs}}
    \cup {setActive(Calling("setActive"), active, qdir) :
            active \in BOOLEAN, qdir \in QDirs(fileModel.m_dir)}
    \cup {setFilterString(Calling("setFilterString"), p) : p \in FilterStrings}
    \cup {toggleSelectedFile(Calling("toggleSelectedFile"), k) : k \in -1..MaxLen}
    \cup {clearSelectedFiles(Calling("clearSelectedFiles")),
          selectAllFiles(Calling("selectAllFiles")),
          markSelectedAsDoomed(Calling("markSelectedAsDoomed"))}
    \cup {selectRange(Calling("selectRange"), first, last, v) :
            first \in 0..MaxLen, last \in 0..MaxLen, v \in BOOLEAN}
    \cup {markAsDoomed(Calling("markAsDoomed"), paths) : paths \in DoomedPaths}
    \cup {refresh(Calling("refresh"), qdir) : qdir \in QDirs(fileModel.m_dir)}
    \cup {refreshFull(Calling("refreshFull"), localPath, qdir) :
            localPath \in {<<>>, D_x}, qdir \in QDirs(fileModel.m_dir)}

\* the call emitted the signal sig
Emitted(after, sig) == \E k \in 1..Len(after.signals) : after.signals[k].sig = sig

\* every call that changes the selected count emits selectedFileCountChanged
C21_Republished ==
    \A after \in ModelCalls :
        after.m_selectedFileCount # fileModel.m_selectedFileCount
            => Emitted(after, "selectedFileCountChanged")

\* C21: after any sequence of model operations the published selected count
\* is the number of entries whose selected flag is true, and every call that
\* changes its value emits selectedFileCountChanged.
C21_SelectedCount ==
    /\ fileModel.m_selectedFileCount =
           CountWhere(fileModel.m_files, LAMBDA e : e.isSelected)
    /\ C21_Republished

\* the matched count is the number of matched entries
C22_Accurate ==
    fileModel.m_matchedFileCount = CountWhere(fileModel.m_files, LAMBDA e : e.isMatched)

\* C22: after any sequence of model operations the published matched count is
\* the number of entries whose matched flag is true, and every call that
\* changes its value emits filteredFileCountChanged, setFilterString among
\* them.
C22_MatchedCount ==
    /\ C22_Accurate
    /\ \A after \in ModelCalls :
           after.m_matchedFileCount # fileModel.m_matchedFileCount
               => Emitted(after, "filteredFileCountChanged")

\* the rows of the dataChanged signals of a call, in the order emitted
RowsNotified(after) ==
    LET ks == SelectSeq([k \in 1..Len(after.signals) |-> k],
                        LAMBDA k : after.signals[k].sig = "dataChanged")
    IN  [n \in 1..Len(ks) |-> after.signals[ks[n]].row]

\* the rows whose selected flag the call changed, in ascending order
RowsChanged(after) ==
    RowsWhere(Len(fileModel.m_files),
              LAMBDA r : after.m_files[r + 1].isSelected
                             # fileModel.m_files[r + 1].isSelected)

\* the calls of the four selection methods
SelectionCalls ==
    {toggleSelectedFile(Calling("toggleSelectedFile"), k) : k \in -1..MaxLen}
    \cup {clearSelectedFiles(Calling("clearSelectedFiles")),
          selectAllFiles(Calling("selectAllFiles"))}
    \cup {selectRange(Calling("selectRange"), first, last, v) :
            first \in 0..MaxLen, last \in 0..MaxLen, v \in BOOLEAN}

\* C23: each of toggleSelectedFile, clearSelectedFiles, selectAllFiles and
\* selectRange emits dataChanged for exactly the rows whose selected flag it
\* changed, and emits selectedFileCountChanged if and only if the value of
\* the count changed.
C23_ExactNotifications ==
    \A after \in SelectionCalls :
        /\ RowsNotified(after) = RowsChanged(after)
        /\ Emitted(after, "selectedFileCountChanged")
               <=> after.m_selectedFileCount # fileModel.m_selectedFileCount

\* the message a read of qdir for the path dir leaves
MessageOf(dir, qdir) ==
    IF dir = <<>> THEN ""
    ELSE IF ~qdir.exists THEN ErrNoFolder
    ELSE IF ~qdir.isReadable THEN ErrNoPermission
    ELSE ""

\* the calls that read the directory: the object after, the path and the QDir
ReadingCalls ==
    {<<setDir(Calling("setDir"), dir[1], dir[2]), dir[1], dir[2]>> :
        dir \in UNION {{<<d, q>> : q \in QDirs(d)} : d \in ModelDirs \ {fileModel.m_dir}}}
    \cup {<<refresh(Calling("refresh"), qdir), fileModel.m_dir, qdir>> :
            qdir \in IF fileModel.m_active THEN QDirs(fileModel.m_dir) ELSE {}}
    \cup {<<refreshFull(Calling("refreshFull"), <<>>, qdir), fileModel.m_dir, qdir>> :
            qdir \in IF fileModel.m_active THEN QDirs(fileModel.m_dir) ELSE {}}
    \cup {<<setActive(Calling("setActive"), TRUE, qdir), fileModel.m_dir, qdir>> :
            qdir \in IF ~fileModel.m_active /\ fileModel.m_dirty
                     THEN QDirs(fileModel.m_dir) ELSE {}}

\* C25: in every reachable state a non-empty error message implies an empty
\* listing; a read or refresh of a missing or unreadable directory leaves the
\* listing empty and sets the message of the failure, and every successful
\* read or refresh leaves the message empty.
C25_ErrorMeansEmpty ==
    /\ fileModel.m_errorMessage # "" => fileModel.m_files = <<>>
    /\ \A call \in ReadingCalls :
           /\ call[1].m_errorMessage = MessageOf(call[2], call[3])
           /\ call[1].m_errorMessage # "" => call[1].m_files = <<>>
           /\ Emitted(call[1], "errorMessageChanged")

\* C25 witness: a refresh found the directory of the model unreadable
C25_Witness ==
    /\ fileModel.lastOp = "refresh"
    /\ fileModel.m_dir = D_d
    /\ fileModel.m_active
    /\ fileModel.m_errorMessage = ErrNoPermission
    /\ fileModel.m_files = <<>>

\* FileModel::selectedFiles
selectedFiles(fm) ==
    IF fm.m_selectedFileCount = 0 THEN <<>>
    ELSE LET chosen == SelectSeq(fm.m_files, LAMBDA e : e.isSelected)
         IN  [k \in 1..Len(chosen) |-> absoluteFilePath(fm.m_dir, chosen[k].fileName)]

\* C26: after any sequence of model operations selectedFiles() returns, in
\* the order of the listing, the absolute paths of exactly the entries whose
\* selected flag is true, and the empty list only when no entry is selected.
C26_SelectedFiles ==
    LET paths == selectedFiles(fileModel)
        rows == RowsWhere(Len(fileModel.m_files),
                          LAMBDA r : fileModel.m_files[r + 1].isSelected)
    IN  /\ Len(paths) = Len(rows)
        /\ \A k \in 1..Len(rows) :
               paths[k] = absoluteFilePath(fileModel.m_dir,
                                           fileModel.m_files[rows[k] + 1].fileName)

\* C27: setDir(dir) with the current path changes nothing and emits nothing;
\* with another path it stops watching the old path and watches the new one,
\* replaces the listing by a full read of the new directory whether the model
\* is active or not, leaves no entry selected or doomed and the selected
\* count at 0, and clears the dirty flag.
C27_SetDir ==
    \A dir \in ModelDirs : \A qdir \in QDirs(dir) :
        LET before == Calling("setDir")
            after == setDir(before, dir, qdir)
        IN  IF dir = fileModel.m_dir
            THEN after = before
            ELSE /\ after.m_dir = dir
                 /\ fileModel.m_dir \notin after.watched
                 /\ after.watched = (IF dir = <<>> THEN {} ELSE {dir})
                 /\ IdSeq(after.m_files) =
                        IdSeq(IF MessageOf(dir, qdir) = "" /\ dir # <<>>
                              THEN qdir.entryList ELSE <<>>)
                 /\ \A k \in 1..Len(after.m_files) :
                        ~after.m_files[k].isSelected /\ ~after.m_files[k].isDoomed
                 /\ after.m_selectedFileCount = 0
                 /\ ~after.m_dirty
                 /\ Emitted(after, "modelReset")
                 /\ Emitted(after, "dirChanged")

\* C27 witness: setDir has given an inactive model the three entries of /d
C27_Witness ==
    /\ fileModel.lastOp = "setDir"
    /\ fileModel.m_dir = D_d
    /\ ~fileModel.m_active
    /\ Len(fileModel.m_files) = 3
    /\ fileModel.watched = {D_d}


-----------------------------------------------------------------------------
(* Claims about the listing policy, under SpecPolicy *)

\* local overrides are enabled
UseLocal == toBool(readVariant(m_settings.global, "View/UseLocalSettings", "true"))
\* the stored value that is to decide a field: the override when overrides are
\* enabled and the directory has one, the global value otherwise, Unset when
\* neither is stored
Deciding(globalKey, localKey) ==
    IF UseLocal /\ m_settings.local[localKey] # Unset
    THEN m_settings.local[localKey]
    ELSE m_settings.global[globalKey]

\* the flags the claim gives for the current settings; a field that is stored
\* nowhere has the default of the application
ClaimedFlags ==
    LET hidden == Deciding("View/HiddenFilesShown", "Settings/HiddenFilesShown")
        dirsFirst == Deciding("View/ShowDirectoriesFirst", "Sailfish/ShowDirectoriesFirst")
        role == Deciding("View/SortRole", "Dolphin/SortRole")
        order == Deciding("View/SortOrder", "Dolphin/SortOrder")
        case == Deciding("View/SortCaseSensitively", "Sailfish/SortCaseSensitively")
    IN  [hidden |-> hidden = "true",
         sortBy |-> IF role = "size" THEN "Size"
                    ELSE IF role = "modificationtime" THEN "Time"
                    ELSE IF role = "type" THEN "Type"
                    ELSE "Name",
         dirsFirst |-> dirsFirst # "false",
         reversed |-> order \in {"reversed", "1"},
         ignoreCase |-> case # "true"]

\* C24: every field of the listing policy (hidden files, sort key, sort
\* direction, directories first, case sensitivity) resolves to the value of
\* the directory's override when local overrides are enabled and the directory
\* has one, and to the global setting otherwise; an unknown sort key resolves
\* to sorting by name.
C24_PolicyResolution == applySettings(m_settings) = ClaimedFlags

\* every field but the sort direction resolves as claimed
C24_OtherFields ==
    [applySettings(m_settings) EXCEPT !.reversed = FALSE]
        = [ClaimedFlags EXCEPT !.reversed = FALSE]


-----------------------------------------------------------------------------
(* Claims about the notifications of the directory worker *)

\* the edit a step emits, when it emits one
EditEmitted == Len(edits') = Len(edits) + 1
NewEdit == edits'[Len(edits')]

\* C28: in every diff-mode read all entryRemoved precede all entryAdded, the
\* indices of the removals are strictly decreasing and those of the
\* insertions strictly increasing, every removal index is an index of the
\* working list when it is emitted, and every insertion index i has
\* 0 <= i <= length of the working list when it is emitted.
C28_IndexDiscipline ==
    [][EditEmitted =>
          /\ NewEdit.kind = "entryRemoved" =>
                /\ \A k \in 1..Len(edits) :
                       edits[k].kind = "entryRemoved" /\ edits[k].index > NewEdit.index
                /\ NewEdit.index \in 0..(Len(m_finalEntries) - 1)
                /\ m_finalEntries[NewEdit.index + 1] = NewEdit.entry
          /\ NewEdit.kind = "entryAdded" =>
                /\ \A k \in 1..Len(edits) :
                       edits[k].kind = "entryAdded" => edits[k].index < NewEdit.index
                /\ NewEdit.index \in 0..Len(m_finalEntries)]_vars

\* C28 witness: a read has removed two entries and inserted two
C28_Witness ==
    /\ CompletedDiff
    /\ Cardinality(Removals) = 2
    /\ Cardinality(Additions) = 2
    /\ Len(argOld) = 3

\* C29: every accepted task that is not cancelled emits exactly one terminal
\* notification, done or error and never both, and nothing after it; a
\* full-mode task emits no entryAdded and no entryRemoved, and its done
\* carries one entry per enumerated name in the order of the enumeration.
C29_OneTerminal ==
    /\ Len(terminal) <= 1
    /\ terminal # <<>> => ~running /\ terminal[1].sig \in {"done", "error"}
    /\ tasks > 0 /\ ~running /\ ~cancelReq => Len(terminal) = 1
    /\ m_mode = "FullMode" =>
           /\ edits = <<>>
           /\ DoneEmitted => terminal[1].entries = lastRead

\* C29 witness: a full-mode read of three entries has ended with done and was
\* never cancelled
C29_Witness ==
    /\ tasks > 0
    /\ ~running
    /\ ~cancelReq
    /\ m_mode = "FullMode"
    /\ DoneEmitted
    /\ Len(terminal[1].entries) = 3

\* a start is accepted with the flag reset and no result yet
C30_FreshStart ==
    [][tasks' = tasks + 1 =>
          /\ ~running /\ running'
          /\ lastCall' = "accepted"
          /\ m_cancelled' = "KeepRunning"
          /\ m_finalEntries' = <<>>
          /\ edits' = <<>> /\ terminal' = <<>>]_vars

\* a task that no cancel() was issued against runs with the flag reset
C30_Unaffected == running /\ ~cancelReq => m_cancelled = "KeepRunning"

\* C30: every accepted task eventually ends, with done, an error or
\* cancelled, and the worker is idle again; the next start is accepted, starts
\* with the cancellation flag reset and an empty result list, and is not
\* affected by a cancel() issued against the task before it.
C30_EndsAndRestarts ==
    /\ C30_FreshStart
    /\ []C30_Unaffected
    /\ (running ~> ~running)

\* C30 witness: the second task of the worker has run to its end with done
C30_Witness ==
    /\ tasks = 2
    /\ ~running
    /\ ~cancelReq
    /\ DoneEmitted
    /\ m_cancelled = "KeepRunning"

-----------------------------------------------------------------------------
(* Claims about a consumer that patches its list, under SpecWorker *)

\* the list of a consumer that started from oldEntries and applied every
\* edit received so far
ConsumerList == ApplyEdits(argOld, edits)
\* the entries of a listing
EntriesOf(s) == {s[k] : k \in 1..Len(s)}
\* a diff-mode read that was cancelled has returned without done
CancelledDiff ==
    m_mode = "DiffMode" /\ cancelReq /\ ~running /\ terminal = <<>>

\* C31: a consumer that starts from oldEntries and applies each entryRemoved
\* and entryAdded as received holds, after every notification, the worker's
\* working list; the listing done carries is the consumer's patched list;
\* after a cancelled run the consumer's list holds only entries of
\* oldEntries or of the fresh listing, no name twice.
C31_ConsumerInStep ==
    /\ m_mode = "DiffMode" /\ edits # <<>> => ConsumerList = m_finalEntries
    /\ CompletedDiff => DoneEntries = ConsumerList
    /\ CancelledDiff =>
           /\ EntriesOf(ConsumerList) \subseteq EntriesOf(argOld) \cup EntriesOf(lastRead)
           /\ NameUnique(ConsumerList)

\* C31 witness: a read cancelled in its insertion pass after a removal and an
\* insertion, the consumer holding a list that is neither the old nor the
\* fresh listing
C31_Witness ==
    /\ CancelledDiff
    /\ Removals # {}
    /\ Additions # {}
    /\ IdSet(ConsumerList) # IdSet(lastRead)
    /\ ConsumerList # argOld
    /\ ConsumerList = m_finalEntries

-----------------------------------------------------------------------------
(* Claims about what a refresh of the directory model keeps, under SpecModel *)

\* the object as the next call of the method op finds it after a call left
\* it as fm
Then(fm, op) == [fm EXCEPT !.lastOp = op, !.signals = <<>>, !.reads = <<>>]

\* the entry of files with the identity attributes of e
SameEntry(files, e) == files[CHOOSE k \in 1..Len(files) : IdOf(files[k]) = IdOf(e)]

\* a refresh that found the entries fresh took the listing from before to
\* after: the entries still present for which Still holds have their selected
\* and doomed flags, the entries still present are in their previous order,
\* the inserted entries are unselected and not doomed
FlagsKept(before, after, fresh, Still(_)) ==
    /\ IdSet(after) = IdSet(fresh)
    /\ \A k \in 1..Len(before) :
           IdOf(before[k]) \in IdSet(fresh) /\ Still(before[k])
               => /\ SameEntry(after, before[k]).isSelected = before[k].isSelected
                  /\ SameEntry(after, before[k]).isDoomed = before[k].isDoomed
    /\ IdSeq(Common(after, IdSet(before))) = IdSeq(Common(before, IdSet(fresh)))
    /\ \A j \in 1..Len(after) :
           IdOf(after[j]) \notin IdSet(before)
               => ~after[j].isSelected /\ ~after[j].isDoomed

\* the frame of a refresh with "matches the filter" read as the matched flag
\* the refresh itself gives the entry
C32_FrameAsEvaluated ==
    \A qdir \in QDirs(fileModel.m_dir) :
        LET after == refresh(Calling("refresh"), qdir)
        IN  fileModel.m_active /\ qdir.exists /\ qdir.isReadable =>
                FlagsKept(fileModel.m_files, after.m_files, qdir.entryList,
                          LAMBDA e : SameEntry(after.m_files, e).isMatched)

\* C32: a refresh leaves the selected and doomed flags of every entry still
\* present with equal identity attributes unchanged, provided it still
\* matches the filter p that was set, keeps those entries in their previous
\* relative order, and gives every inserted entry the unselected, not-doomed
\* state.
C32_RefreshKeepsFlags ==
    \A p \in FilterStrings : \A qdir \in QDirs(fileModel.m_dir) :
        LET before == setFilterString(Calling("setFilterString"), p)
            after == refresh(Then(before, "refresh"), qdir)
        IN  fileModel.m_active /\ qdir.exists /\ qdir.isReadable =>
                FlagsKept(before.m_files, after.m_files, qdir.entryList,
                          LAMBDA e : GlobFound(p, e.fileName))

-----------------------------------------------------------------------------
(* Claims about the two diffs, under SpecDiff *)

\* the edits of the worker as the row signals of a model: entryRemoved(i) as
\* rowsRemoved(i, i), entryAdded(i) as rowsInserted(i, i)
WorkerRows ==
    [k \in 1..Len(edits) |->
        [sig |-> IF edits[k].kind = "entryRemoved" THEN "rowsRemoved"
                 ELSE "rowsInserted",
         row |-> edits[k].index]]

\* C33: the worker's diff, which tests insertions against the baseline list,
\* and the model's in-place diff, which tests them against the working list
\* with the earlier insertions in it, emit the same edit sequence and end
\* with the same listing for every pair of name-unique old and new listings.
C33_SameDiff ==
    CompletedDiff =>
        /\ ModelDiff(argOld, lastRead).signals = WorkerRows
        /\ ModelDiff(argOld, lastRead).m_files = DoneEntries

\* C33 witness: a completed diff with a removal, so that the baseline is the
\* reduced list, and two insertions, the second tested by the model against a
\* list that holds the first
C33_Witness ==
    /\ CompletedDiff
    /\ Removals # {}
    /\ Cardinality(Additions) >= 2
    /\ Len(m_oldEntries) < Len(argOld)
    /\ Len(m_oldEntries) > 0

-----------------------------------------------------------------------------
(* Claims about indices out of range, under SpecModel *)

\* the indices a caller can pass
IndexSamples == (0 - 2)..(MaxLen + 1)
\* the index names no row of the listing
OutOfRange(fileIndex) == fileIndex < 0 \/ fileIndex >= Len(fileModel.m_files)

\* C34: toggleSelectedFile and selectRange called with an index below 0 or at
\* or beyond the listing length change no entry and no count and emit no
\* notification, and fileNameAt returns the empty string for such an index.
C34_OutOfRange ==
    \A bad \in {n \in IndexSamples : OutOfRange(n)} :
        /\ toggleSelectedFile(Calling("toggleSelectedFile"), bad)
               = Calling("toggleSelectedFile")
        /\ \A other \in IndexSamples, v \in BOOLEAN :
               /\ selectRange(Calling("selectRange"), bad, other, v)
                      = Calling("selectRange")
               /\ selectRange(Calling("selectRange"), other, bad, v)
                      = Calling("selectRange")
        /\ fileNameAt(fileModel, bad) = <<>>

\* C34 witness: toggleSelectedFile has been called on the active model of a
\* directory that holds nothing, where every index is out of range
C34_Witness ==
    /\ fileModel.lastOp = "toggleSelectedFile"
    /\ fileModel.m_dir = D_d
    /\ fileModel.m_active
    /\ fileModel.m_errorMessage = ""
    /\ fileModel.m_files = <<>>
    /\ fileModel.m_selectedFileCount = 0
    /\ fileNameAt(fileModel, 0) = <<>>

-----------------------------------------------------------------------------
(* Claims about what follows a cancellation, under SpecWorker *)

\* the number of edits the read would emit if it ran to its end
EditsInFull == Len(ModelDiff(argOld, lastRead).signals)

\* C35: after the cancellation flag is set during a diff-mode read, the
\* worker emits at most one further edit (entryRemoved or entryAdded) before
\* it returns, however many entries remain to be compared: an edit emitted
\* under the flag is the first since the flag was set and takes the read to
\* the check that ends it.
C35_OneEditThenReturn ==
    /\ [][cancelReq /\ cancelReq' /\ edits' # edits
             => /\ m_mode = "DiffMode"
                /\ Len(edits) = editsAtCancel
                /\ edits' = Append(edits, edits'[Len(edits')])
                /\ pc' \in {"removeCheck", "insertCheck"}]_vars
    /\ [][cancelReq /\ cancelReq' /\ Len(edits) > editsAtCancel /\ running /\ pc' # pc
             => ~running' /\ edits' = edits /\ terminal' = terminal]_vars

\* C35 witness: a read cancelled before its first edit has returned after one
\* insertion, at least two more edits left undone
C35_Witness ==
    /\ cancelReq
    /\ ~running
    /\ editsAtCancel = 0
    /\ Len(edits) = 1
    /\ edits[1].kind = "entryAdded"
    /\ EditsInFull >= 3
    /\ terminal = <<>>

-----------------------------------------------------------------------------
(* Claims about what follows the cancellation of a search, under SpecSearch *)

\* what the k-th notification is to a listener
KindOf(k) ==
    IF s_events[k].sig = "progressChanged"
    THEN (IF s_events[k].text = <<>> THEN "end" ELSE "visit")
    ELSE s_events[k].sig
\* the notifications emitted after the cancel(), by kind
KindsAfterCancel ==
    [j \in 1..(Len(s_events) - s_eventsAtCancel) |-> KindOf(s_eventsAtCancel + j)]
\* what may follow a cancel(): a matchFound or none, a progressChanged of a
\* directory or none, then progressChanged("") and done; done alone when the
\* cancel() came between the last two emits of run()
CancelTails ==
    {(IF match THEN <<"matchFound">> ELSE <<>>)
         \o (IF visit THEN <<"visit">> ELSE <<>>) \o <<"end", "done">> :
     match \in BOOLEAN, visit \in BOOLEAN}
    \cup {<<"done">>}

\* C36: after the cancellation flag is set during a search, whenever that
\* is, the search worker emits at most one further matchFound and at most one
\* further progressChanged carrying a directory before the terminating
\* progressChanged("") and done.
C36_CancelTail ==
    s_cancelReq =>
        /\ \E tail \in CancelTails : IsPrefix(KindsAfterCancel, tail)
        /\ ~s_running => KindsAfterCancel \in CancelTails

\* C36 witness: a search cancelled before its first notification has ended
\* after the progressChanged of the directory it was started in
C36_Witness ==
    /\ s_cancelReq
    /\ s_eventsAtCancel = 0
    /\ ~s_running
    /\ KindsAfterCancel = <<"visit", "end", "done">>

-----------------------------------------------------------------------------
(* Claims about the dirty flag of the directory model, under SpecModel *)

\* C37: in every reachable state of the directory model, after any sequence
\* of setDir, setActive, refresh and settings-change notifications
\* (refreshFull), the dirty flag is set only while the model is inactive.
C37_DirtyOnlyInactive == fileModel.m_dirty => ~fileModel.m_active

\* C37 witness: a settings change has reached the inactive model of a
\* directory with three entries, the first selected, and has left it dirty
C37_Witness ==
    /\ fileModel.lastOp = "refreshFull"
    /\ fileModel.m_dirty
    /\ ~fileModel.m_active
    /\ Len(fileModel.m_files) = 3
    /\ fileModel.m_files[1].isSelected

-----------------------------------------------------------------------------
(* Claims about re-evaluating the filter, under SpecModel *)

\* the entries of after with an identity held in before have the matched
\* flag they have in before
MatchedKept(before, after) ==
    \A k \in 1..Len(before) : \A j \in 1..Len(after) :
        IdOf(after[j]) = IdOf(before[k]) => after[j].isMatched = before[k].isMatched
\* and the selected flag
SelectedKept(before, after) ==
    \A k \in 1..Len(before) : \A j \in 1..Len(after) :
        IdOf(after[j]) = IdOf(before[k]) => after[j].isSelected = before[k].isSelected

\* setFilterString(p) on the active model, then a refresh, a second refresh
\* and a full read of the directory as qdir: the flags of the retained
\* entries are those setFilterString(p) left
Reevaluated(p, qdir) ==
    LET set == setFilterString(Calling("setFilterString"), p)
        once == refresh(Then(set, "refresh"), qdir)
        twice == refresh(Then(once, "refresh"), qdir)
        read == refreshFull(Then(set, "refreshFull"), <<>>, qdir)
    IN  /\ MatchedKept(set.m_files, once.m_files)
        /\ SelectedKept(set.m_files, once.m_files)
        /\ MatchedKept(set.m_files, twice.m_files)
        /\ SelectedKept(set.m_files, twice.m_files)
        /\ MatchedKept(set.m_files, read.m_files)

\* the re-evaluation is idempotent for a filter string without ".", "?", "*"
C38_PlainStrings ==
    \A p \in {<<>>, <<"c", "h">>, <<"A">>} : \A qdir \in QDirs(fileModel.m_dir) :
        fileModel.m_active => Reevaluated(p, qdir)

\* C38: a refresh or directory read that follows setFilterString(p) leaves
\* the matched flag of every retained entry and the selection it implies as
\* setFilterString(p) left them, for any number of refreshes.
C38_FilterIdempotent ==
    \A p \in FilterStrings : \A qdir \in QDirs(fileModel.m_dir) :
        fileModel.m_active => Reevaluated(p, qdir)

-----------------------------------------------------------------------------
(* Claims about a settings change that reaches an inactive model, under     *)
(* SpecModel                                                                *)

\* the directory of the model as the new settings list it: one of the
\* memberships (the hidden-file flag admits more or fewer entries), in name
\* order or reversed
AsSettingsList ==
    {QDir(TRUE, TRUE, EntryListAs(entries, reversed)) :
        entries \in ModelListings, reversed \in BOOLEAN}

\* the listing after viewSettingsChanged reached the model: at once when it
\* is active, at its activation when it is not
AfterSettingsChange(qdir) ==
    LET noted == refreshFull(Calling("refreshFull"), <<>>, qdir)
    IN  IF fileModel.m_active THEN noted.m_files
        ELSE setActive(Then(noted, "setActive"), TRUE, qdir).m_files

\* a settings change received while active gives the listing of the new
\* settings, member for member and in their order
C39_WhileActive ==
    fileModel.m_active /\ fileModel.m_dir = D_d =>
        \A qdir \in AsSettingsList :
            IdSeq(AfterSettingsChange(qdir)) = IdSeq(qdir.entryList)

\* a settings change received while inactive gives the membership of the
\* new settings once the model is active
C39_Membership ==
    fileModel.m_dir = D_d =>
        \A qdir \in AsSettingsList :
            IdSet(AfterSettingsChange(qdir)) = IdSet(qdir.entryList)

\* C39: if the view settings change while the model is inactive, then once
\* the model becomes active its listing has the membership and the order
\* that the new settings dictate, the same as a settings change received
\* while active produces.
C39_DeferredSettings ==
    fileModel.m_dir = D_d =>
        \A qdir \in AsSettingsList :
            IdSeq(AfterSettingsChange(qdir)) = IdSeq(qdir.entryList)

-----------------------------------------------------------------------------
(* Claims about the bookmarks, under SpecBookmarks *)

\* what getBookmarks() returns after the call left the settings as st
Listed(st) == getBookmarks(st).result
\* no element twice
NoDuplicates(array) ==
    \A j, k \in 1..Len(array) : array[j] = array[k] => j = k
\* the array holds path
Holds(array, path) == \E k \in 1..Len(array) : array[k] = path
\* the other elements of the array, in their order
Others(array, path) == SelectSeq(array, LAMBDA e : e # path)

\* C40: after any sequence of addBookmark, removeBookmark and moveBookmark
\* calls getBookmarks() returns no path twice; after addBookmark(p) it
\* contains p, after removeBookmark(p) it does not contain p, and both leave
\* the relative order of the other bookmarks unchanged.
C40_Bookmarks ==
    /\ NoDuplicates(Listed(bookmarkSettings))
    /\ \A path \in BookmarkArgs \ {""} :
           LET before == Listed(bookmarkSettings)
               added == Listed(addBookmark(bookmarkSettings, path))
               removed == Listed(removeBookmark(bookmarkSettings, path))
           IN  /\ Holds(added, path)
               /\ NoDuplicates(added)
               /\ Others(added, path) = Others(before, path)
               /\ ~Holds(removed, path)
               /\ Others(removed, path) = Others(before, path)

\* C40 witness: a bookmark that was in the list has been added again, the
\* stored array holding it first and last with two other bookmarks between,
\* and getBookmarks() returning three
C40_Witness ==
    /\ bookmarkSettings.lastOp = "addBookmark"
    /\ bookmarkSettings.entries.valid
    /\ Len(bookmarkSettings.entries.array) = 4
    /\ bookmarkSettings.entries.array[1] = bookmarkSettings.path
    /\ bookmarkSettings.entries.array[4] = bookmarkSettings.path
    /\ Len(Listed(bookmarkSettings)) = 3

====
